---- MODULE Spec2Model ----
(***************************************************************************)
(* Conversation tracking, follow-up classification, the two-state task     *)
(* orchestrator and the sliding-window span extractor of the causal        *)
(* rationale extraction system.                                            *)
(*                                                                         *)
(* Text is modelled as a sequence of one-character strings, so that        *)
(* lower-casing, substring search, whitespace splitting and joining are    *)
(* computed as Python computes them.                                       *)
(***************************************************************************)
EXTENDS Integers, Sequences, FiniteSets, TLC

(***************************************************************************)
(* Bounds of the model.                                                    *)
(***************************************************************************)
\* requests started in one behaviour of the orchestrator
MaxRequests == 3
\* words of a query handed to is_followup in SpecIsFollowup
MaxWords == 5
\* items of a context list handed to _enhance_query_with_context
MaxContext == 3
\* turns of a transcript handed to the span extractors
MaxTurns == 4

\* the longest transcript handed to the event-anchored span extraction
MaxEventTurns == 7
\* spans handed to the evidence scorer
MaxSpans == 3
\* words of a span text handed to the pattern detector
MaxTextWords == 3
\* the largest start index of a span handed to the temporal and sequential detection
MaxStart == 6
\* results the vector store returns to one retrieval
MaxResults == 2
\* turns of a conversation handed to get_recent_turns
MaxHistory == 3
\* pieces an explanation handed to _extract_citations is made of
MaxPieces == 3
\* spans handed to one call of analyze_causal_spans
MaxAnalyzed == 2

(***************************************************************************)
(* Python str operations.                                                  *)
(***************************************************************************)
\* Optional[...] values: None is the empty tuple, a present value v is <<v>>
None == <<>>

Some(v) == <<v>>

\* str.lower() on the letters that occur in the model
UpperToLower == [A |-> "a", B |-> "b", C |-> "c", D |-> "d", E |-> "e", F |-> "f", G |-> "g", H |-> "h", I |-> "i", J |-> "j", K |-> "k", L |-> "l", M |-> "m", N |-> "n", O |-> "o", P |-> "p", Q |-> "q", R |-> "r", S |-> "s", T |-> "t", U |-> "u", V |-> "v", W |-> "w", X |-> "x", Y |-> "y", Z |-> "z"]

LowerChar(c) == IF c \in DOMAIN UpperToLower THEN UpperToLower[c] ELSE c

Lower(s) == [i \in 1..Len(s) |-> LowerChar(s[i])]

\* the Python expression  sub in s
Contains(s, sub) == \E i \in 0..(Len(s) - Len(sub)) : SubSeq(s, i + 1, i + Len(sub)) = sub

IsSpace(c) == c \in {" ", "\t"}

\* str.split(): the maximal runs of non-whitespace characters, in order
RECURSIVE SplitFrom(_, _, _)
SplitFrom(s, i, word) ==
    IF i > Len(s)
    THEN (IF word = <<>> THEN <<>> ELSE <<word>>)
    ELSE IF IsSpace(s[i])
         THEN (IF word = <<>> THEN <<>> ELSE <<word>>) \o SplitFrom(s, i + 1, <<>>)
         ELSE SplitFrom(s, i + 1, Append(word, s[i]))

Split(s) == SplitFrom(s, 1, <<>>)

\* sep.join(parts)
RECURSIVE Join(_, _)
Join(sep, parts) ==
    IF parts = <<>> THEN <<>>
    ELSE IF Len(parts) = 1 THEN parts[1]
    ELSE parts[1] \o sep \o Join(sep, Tail(parts))

\* dict.get(key, default)
Get(d, key, default) == IF key \in DOMAIN d THEN d[key] ELSE default

\* the Python slice seq[i:j] for 0 <= i
Slice(seq, i, j) == SubSeq(seq, i + 1, IF j > Len(seq) THEN Len(seq) ELSE j)

\* the Python slice seq[-n:] for n >= 0 (seq[-0:] is the whole sequence)
NegSliceFrom(seq, n) ==
    IF n = 0 \/ n >= Len(seq) THEN seq ELSE SubSeq(seq, Len(seq) - n + 1, Len(seq))

(***************************************************************************)
(* Python floats are modelled as exact rationals num/den in lowest terms    *)
(* with den > 0; the rounding of floating-point arithmetic is left out.     *)
(***************************************************************************)
RECURSIVE gcd(_, _)
gcd(a, b) == IF b = 0 THEN a ELSE gcd(b, a % b)

\* the rational num/den in lowest terms, for den > 0
Fraction(num, den) == [num |-> num \div gcd(num, den), den |-> den \div gcd(num, den)]

Zero == Fraction(0, 1)

One == Fraction(1, 1)

\* the float x + y
Add(x, y) == Fraction(x.num * y.den + y.num * x.den, x.den * y.den)

\* the float x - y
Sub(x, y) == Fraction(x.num * y.den - y.num * x.den, x.den * y.den)

\* the float x * y
Mul(x, y) == Fraction(x.num * y.num, x.den * y.den)

\* x <= y and x < y on floats
Leq(x, y) == x.num * y.den <= y.num * x.den

Lt(x, y) == x.num * y.den < y.num * x.den

\* the built-in min on two floats
fmin(x, y) == IF Leq(x, y) THEN x ELSE y

RECURSIVE fsum(_)
\* the sum of a list of floats
fsum(seq) == IF seq = <<>> THEN Zero ELSE Add(seq[1], fsum(Tail(seq)))

(***************************************************************************)
(* ContextManager.is_followup: the fixed vocabularies.                     *)
(***************************************************************************)
followup_indicators == <<
    <<"a","l","s","o">>,
    <<"a","d","d","i","t","i","o","n","a","l","l","y">>,
    <<"f","u","r","t","h","e","r","m","o","r","e">>,
    <<"m","o","r","e","o","v","e","r">>,
    <<"w","h","a","t"," ","a","b","o","u","t">>,
    <<"h","o","w"," ","a","b","o","u","t">>,
    <<"t","e","l","l"," ","m","e"," ","m","o","r","e">>,
    <<"c","a","n"," ","y","o","u">>,
    <<"w","h","a","t"," ","e","l","s","e">>,
    <<"a","n","o","t","h","e","r">>,
    <<"o","t","h","e","r">>,
    <<"d","i","f","f","e","r","e","n","t">>,
    <<"i","t">>,
    <<"t","h","a","t">>,
    <<"t","h","i","s">>,
    <<"t","h","e","s","e">>,
    <<"t","h","o","s","e">>,
    <<"t","h","e","y">> >>

pronouns == {
    <<"i","t">>,
    <<"t","h","a","t">>,
    <<"t","h","i","s">>,
    <<"t","h","e","s","e">>,
    <<"t","h","o","s","e">>,
    <<"t","h","e","y">>,
    <<"t","h","e","m">> }

(***************************************************************************)
(* State.                                                                  *)
(***************************************************************************)
VARIABLES
    conversations,  \* ContextManager.conversations: conversation id -> turns of its ConversationContext
    next_uuid,      \* number of conversation ids drawn from uuid.uuid4() so far
    pc,             \* position of each worker inside the request it handles
    frame,          \* arguments and local variables of the request of each worker
    started,        \* number of requests started so far
    serialized,     \* deployment: requests on one conversation id are mutually exclusive
    call            \* one call of a pure function: its arguments and its return value

vars == <<conversations, next_uuid, pc, frame, started, serialized, call>>

Workers == {"w1", "w2"}

\* conversation ids chosen by callers
ConvIds == {"c1"}

\* the values uuid.uuid4() returns, in the order it returns them
UuidNames == <<"u1", "u2", "u3", "u4", "u5", "u6">>

Uuid(n) == UuidNames[n]

(***************************************************************************)
(* Texts of the model.                                                     *)
(***************************************************************************)
QWhyCancel == <<"W","h","y"," ","d","i","d"," ","c","u","s","t","o","m","e","r","s"," ","c","a","n","c","e","l"," ","p","l","a","n","s">>

QWhatAboutThat == <<"w","h","a","t"," ","a","b","o","u","t"," ","t","h","a","t","?">>

QWhatAboutIt == <<"w","h","a","t"," ","a","b","o","u","t"," ","i","t","?">>

QRefundDelays == <<"r","e","f","u","n","d"," ","d","e","l","a","y","s">>

Queries == {QWhyCancel, QWhatAboutThat}

\* explanation texts the language-generation service may return
Explanations == {<<"E","1">>}

\* sizes of the evidence list the causal analyzer may return
EvidenceCounts == {2}

\* an explicit context item supplied by a caller
CallerItem == [query |-> QRefundDelays, response |-> <<"E","0">>]

\* the context argument: absent, an empty list, a one-item list
ContextArgs == {None, Some(<<>>), Some(<<CallerItem>>)}

(***************************************************************************)
(* ConversationContext and ContextManager.                                 *)
(***************************************************************************)
\* a ConversationTurn; turn_id and timestamp are write-only and are left out
ConversationTurn(query, response, metadata) ==
    [query |-> query, response |-> response, metadata |-> metadata]

\* add_turn with turns.insert(0, turn) in place of turns.append(turn)
ConversationContext_add_turn_front(turns, query, response, metadata) ==
    <<ConversationTurn(query, response, metadata)>> \o turns

\* ConversationContext.add_turn on the turns list
ConversationContext_add_turn(turns, query, response, metadata) ==
    Append(turns, ConversationTurn(query, response, metadata))

\* get_recent_turns with the slice turns[-n-1:-1]: the n turns before the latest one
get_recent_turns_before_latest(turns, n) ==
    IF turns = <<>> THEN turns
    ELSE LET earlier == SubSeq(turns, 1, Len(turns) - 1)
         IN  IF Len(earlier) > n THEN NegSliceFrom(earlier, n) ELSE earlier

\* ConversationContext.get_recent_turns:  turns[-n:] if len(turns) > n else turns
get_recent_turns(turns, n) ==
    IF Len(turns) > n THEN NegSliceFrom(turns, n) ELSE turns

\* ContextManager.get_or_create_conversation for a given id: the store afterwards
get_or_create_conversation(convs, conversation_id) ==
    IF conversation_id \notin DOMAIN convs
    THEN [c \in DOMAIN convs \cup {conversation_id} |->
             IF c = conversation_id THEN <<>> ELSE convs[c]]
    ELSE convs

\* ContextManager.add_turn: the store afterwards
add_turn(convs, conversation_id, query, response, metadata) ==
    LET created == get_or_create_conversation(convs, conversation_id)
    IN  [created EXCEPT ![conversation_id] =
             ConversationContext_add_turn(@, query, response, metadata)]

\* ContextManager.get_context: the conversation's turns, or None
get_context(convs, conversation_id) ==
    IF conversation_id \in DOMAIN convs THEN Some(convs[conversation_id]) ELSE None

\* ContextManager.clear_conversation: the store afterwards
clear_conversation(convs, conversation_id) ==
    IF conversation_id \in DOMAIN convs
    THEN [c \in DOMAIN convs \ {conversation_id} |-> convs[c]]
    ELSE convs

\* ContextManager.is_followup, lines 117-142: the cues looked for in the query text
followup_cues(query) ==
    LET query_lower == Lower(query)
        query_words == Split(query_lower)
    IN  IF \E k \in 1..Len(followup_indicators) : Contains(query_lower, followup_indicators[k])
        THEN TRUE
        ELSE IF \E k \in 1..Len(query_words) : query_words[k] \in pronouns
        THEN TRUE
        ELSE IF Len(Split(query)) < 5
        THEN TRUE
        ELSE FALSE

\* is_followup that tests only  if not conversation
is_followup_no_turns_check(convs, query, conversation_id) ==
    LET conversation == get_context(convs, conversation_id)
    IN  IF conversation = None
        THEN FALSE
        ELSE followup_cues(query)

\* ContextManager.is_followup
is_followup(convs, query, conversation_id) ==
    LET conversation == get_context(convs, conversation_id)
    IN  IF conversation = None \/ conversation[1] = <<>>
        THEN FALSE
        ELSE followup_cues(query)

(***************************************************************************)
(* FollowUpProcessor.                                                      *)
(***************************************************************************)
SPreviousQueries == <<"P","r","e","v","i","o","u","s"," ","q","u","e","r","i","e","s",":"," ">>

SCurrentQuery == <<"C","u","r","r","e","n","t"," ","q","u","e","r","y",":"," ">>

SSemicolon == <<";"," ">>

SDot == <<"."," ">>

\* item.get('query', '')
ItemQuery(item) == Get(item, "query", <<>>)

\* _enhance_query_with_context joining context_responses in place of context_queries
enhance_query_with_responses(query, context) ==
    IF context = <<>>
    THEN query
    ELSE LET context_responses == [i \in 1..Len(context) |-> Get(context[i], "response", <<>>)]
         IN  Join(SDot, << SPreviousQueries \o Join(SSemicolon, NegSliceFrom(context_responses, 2)),
                           SCurrentQuery \o query >>)

\* _enhance_query_with_context with the slice context_queries[:2] in place of [-2:]
enhance_query_first_two(query, context) ==
    IF context = <<>>
    THEN query
    ELSE LET context_queries == [i \in 1..Len(context) |-> ItemQuery(context[i])]
         IN  Join(SDot, << SPreviousQueries \o Join(SSemicolon, Slice(context_queries, 0, 2)),
                           SCurrentQuery \o query >>)

\* FollowUpProcessor._enhance_query_with_context
enhance_query_with_context(query, context) ==
    IF context = <<>>
    THEN query
    ELSE LET context_queries == [i \in 1..Len(context) |-> ItemQuery(context[i])]
             enhanced_parts ==
                 (IF context_queries # <<>>
                  THEN << SPreviousQueries \o Join(SSemicolon, NegSliceFrom(context_queries, 2)) >>
                  ELSE <<>>)
                 \o << SCurrentQuery \o query >>
         IN  Join(SDot, enhanced_parts)

\* process_followup, lines 46-59: the context the request works with
followup_context(convs, conversation_id, context) ==
    IF context = None
    THEN LET conversation == get_context(convs, conversation_id)
         IN  IF conversation # None
             THEN LET recent == get_recent_turns(conversation[1], 3)
                  IN  [i \in 1..Len(recent) |->
                          [query |-> recent[i].query,
                           response |-> recent[i].response,
                           metadata |-> recent[i].metadata]]
             ELSE <<>>
    ELSE context[1]

\* add_turn called with query=enhanced_query
followup_turn_enhanced(query, explanation, isf, evidence_count, enhanced_query) ==
    [query |-> enhanced_query,
     response |-> explanation,
     metadata |-> [is_followup |-> isf,
                   evidence_count |-> evidence_count,
                   enhanced_query |-> enhanced_query]]

\* process_followup, lines 110-119: the arguments of add_turn
followup_turn(query, explanation, isf, evidence_count, enhanced_query) ==
    [query |-> query,
     response |-> explanation,
     metadata |-> [is_followup |-> isf,
                   evidence_count |-> evidence_count,
                   enhanced_query |-> enhanced_query]]

(***************************************************************************)
(* QueryParser._extract_event_type.                                        *)
(***************************************************************************)
event_types == <<
    [word |-> <<"e","s","c","a","l","a","t","i","o","n">>, type |-> "escalation"],
    [word |-> <<"r","e","f","u","n","d">>, type |-> "refund"],
    [word |-> <<"c","h","u","r","n">>, type |-> "churn"],
    [word |-> <<"c","o","m","p","l","a","i","n","t">>, type |-> "complaint"],
    [word |-> <<"s","a","t","i","s","f","a","c","t","i","o","n">>, type |-> "satisfaction"] >>

extract_event_type(query_lower) ==
    IF \E k \in 1..Len(event_types) : Contains(query_lower, event_types[k].word)
    THEN event_types[CHOOSE k \in 1..Len(event_types) :
             /\ Contains(query_lower, event_types[k].word)
             /\ \A j \in 1..(k - 1) : ~Contains(query_lower, event_types[j].word)].type
    ELSE IF Contains(query_lower, <<"e","s","c","a","l","a","t">>) THEN "escalation"
    ELSE IF Contains(query_lower, <<"r","e","f","u","n","d">>) THEN "refund"
    ELSE IF Contains(query_lower, <<"c","h","u","r","n">>) \/ Contains(query_lower, <<"c","a","n","c","e","l">>) THEN "churn"
    ELSE IF Contains(query_lower, <<"c","o","m","p","l","a","i","n">>) THEN "complaint"
    ELSE "None"

(***************************************************************************)
(* Task2Processor.process_query and FollowUpProcessor.process_followup.    *)
(* A request is cut where it waits for a collaborator: at "retrieve" it    *)
(* is parsing, retrieving, reranking and analysing, at "generate" it waits *)
(* for the explanation.  The statements between two waits touch only       *)
(* memory and form one step.  A worker that is "done" or "raised" has      *)
(* handed the result or the exception to its caller.                       *)
(***************************************************************************)
IdleFrame ==
    [query |-> <<>>, conversation_id_arg |-> "None", context |-> None,
     conversation_id |-> "None", state |-> "", is_followup |-> FALSE, prior_turns |-> 0,
     ctx |-> <<>>, enhanced_query |-> <<>>, event_type |-> "None",
     pipeline_query |-> <<>>, evidence_count |-> 0, llm_query |-> <<>>]

InFlight(w) == pc[w] \in {"retrieve", "generate"}

\* the turns recorded for a conversation id (none when the id is unknown)
TurnLog(convs, conversation_id) ==
    IF conversation_id \in DOMAIN convs THEN convs[conversation_id] ELSE <<>>

\* Python truth value of the context argument
Truthy(context) == context # None /\ context[1] # <<>>

\* line 49 read as  context or (is_followup and get_context(conversation_id))
takes_followup_branch_context_first(convs, isf, conversation_id, context) ==
    Truthy(context) \/ (isf /\ get_context(convs, conversation_id) # None)

\* Task2Processor.process_query, line 49: the follow-up branch is taken
takes_followup_branch(convs, isf, conversation_id, context) ==
    isf /\ (Truthy(context) \/ get_context(convs, conversation_id) # None)

\* process_followup, lines 46-65: the locals after the context is read
followup_begin(convs, f) ==
    LET ctx == followup_context(convs, f.conversation_id, f.context)
    IN  [f EXCEPT !.state = "FOLLOWUP",
                  !.ctx = ctx,
                  !.is_followup = is_followup(convs, f.query, f.conversation_id),
                  !.enhanced_query = enhance_query_with_context(f.query, ctx)]

\* per-conversation mutual exclusion, when the deployment provides it
MayEnter(w, conversation_id) ==
    serialized => \A o \in Workers \ {w} : InFlight(o) => frame[o].conversation_id # conversation_id

\* a request arrives: Task2Processor.process_query, lines 42-49, and on the follow-up branch
\* process_followup, lines 46-65
StartQuery(w) ==
    /\ pc[w] = "idle"
    /\ started < MaxRequests
    /\ \E query \in Queries, cid_arg \in {"None"} \cup ConvIds,
          context \in ContextArgs :
        LET fresh == cid_arg = "None"
            cid == IF fresh THEN Uuid(next_uuid + 1) ELSE cid_arg
            convs == IF fresh THEN get_or_create_conversation(conversations, cid)
                     ELSE conversations
            isf == is_followup(convs, query, cid)
            f0 == [IdleFrame EXCEPT !.query = query,
                                    !.conversation_id_arg = cid_arg, !.context = context,
                                    !.conversation_id = cid, !.is_followup = isf,
                                    !.prior_turns = Len(TurnLog(convs, cid))]
        IN  /\ MayEnter(w, cid)
            /\ conversations' = convs
            /\ next_uuid' = IF fresh THEN next_uuid + 1 ELSE next_uuid
            /\ frame' = [frame EXCEPT ![w] =
                   IF takes_followup_branch(convs, isf, cid, context)
                   THEN followup_begin(convs, f0)
                   ELSE [f0 EXCEPT !.state = "INITIAL"]]
    /\ pc' = [pc EXCEPT ![w] = "retrieve"]
    /\ started' = started + 1
    /\ UNCHANGED <<serialized, call>>

\* query parsing, retrieval, reranking and causal analysis have returned (task1 line 37 and
\* explanation_generator lines 46-58; process_followup lines 68-84); the follow-up path
\* reads the context summary (line 87); the generation request is sent with llm_query
RetrieveOk(w) ==
    /\ pc[w] = "retrieve"
    /\ \E n \in EvidenceCounts :
        LET f == frame[w]
            used == IF f.state = "FOLLOWUP" THEN f.enhanced_query ELSE f.query
        IN  frame' = [frame EXCEPT ![w].event_type = extract_event_type(Lower(used)),
                                   ![w].pipeline_query = used,
                                   ![w].evidence_count = n,
                                   ![w].llm_query = used]
    /\ conversations' = IF frame[w].state = "FOLLOWUP"
                        THEN get_or_create_conversation(conversations, frame[w].conversation_id)
                        ELSE conversations
    /\ pc' = [pc EXCEPT ![w] = "generate"]
    /\ UNCHANGED <<next_uuid, started, serialized, call>>

\* the arguments of the add_turn call of the request (task2 lines 67-76, followup lines 110-119)
recorded_turn(f, explanation) ==
    IF f.state = "FOLLOWUP"
    THEN followup_turn(f.query, explanation, f.is_followup, f.evidence_count, f.enhanced_query)
    ELSE [query |-> f.query,
          response |-> explanation,
          metadata |-> [is_followup |-> FALSE,
                        event_type |-> f.event_type,
                        evidence_count |-> f.evidence_count]]

\* the generation service returns; the turn is recorded and the request completes
\* (explanation_generator lines 61-76 and task2 lines 64-82; process_followup lines 89-121)
GenerateOk(w) ==
    /\ pc[w] = "generate"
    /\ \E explanation \in Explanations :
        LET f == frame[w]
            turn == recorded_turn(f, explanation)
        IN  /\ conversations' = add_turn(conversations, f.conversation_id,
                                         turn.query, turn.response, turn.metadata)
            /\ frame' = [frame EXCEPT ![w] = IdleFrame]
    /\ pc' = [pc EXCEPT ![w] = "done"]
    /\ UNCHANGED <<next_uuid, started, serialized, call>>

\* process_followup and process_query with add_turn placed before the generation call returns
Raise_after_add_turn(w) ==
    /\ pc[w] \in {"retrieve", "generate"}
    /\ LET f == frame[w]
           turn == recorded_turn(f, <<>>)
       IN  conversations' = IF pc[w] = "generate"
                            THEN add_turn(conversations, f.conversation_id,
                                          turn.query, turn.response, turn.metadata)
                            ELSE conversations
    /\ pc' = [pc EXCEPT ![w] = "raised"]
    /\ frame' = [frame EXCEPT ![w] = IdleFrame]
    /\ UNCHANGED <<next_uuid, started, serialized, call>>

\* query parsing, retrieval, reranking or generation raises: nothing catches it
Raise(w) ==
    /\ pc[w] \in {"retrieve", "generate"}
    /\ pc' = [pc EXCEPT ![w] = "raised"]
    /\ frame' = [frame EXCEPT ![w] = IdleFrame]
    /\ UNCHANGED <<conversations, next_uuid, started, serialized, call>>

\* the caller has its result or its exception; the worker takes the next request
Return(w) ==
    /\ pc[w] \in {"done", "raised"}
    /\ pc' = [pc EXCEPT ![w] = "idle"]
    /\ frame' = [frame EXCEPT ![w] = IdleFrame]
    /\ UNCHANGED <<conversations, next_uuid, started, serialized, call>>

\* ContextManager.clear_conversation called by the owner of the store
Clear(conversation_id) ==
    /\ conversation_id \in DOMAIN conversations
    /\ serialized => \A o \in Workers : InFlight(o) => frame[o].conversation_id # conversation_id
    /\ conversations' = clear_conversation(conversations, conversation_id)
    /\ UNCHANGED <<next_uuid, pc, frame, started, serialized, call>>

NoCall == [fn |-> "none"]

EmptyStore == [c \in {} |-> <<>>]

(***************************************************************************)
(* Sliding-window spans: TranscriptPreprocessor.extract_dialogue_spans and *)
(* SpanExtractor._create_spans_from_turns.  Indices are 0-based as in the  *)
(* source; a span_id f"{transcript_id}_span_{i}" is kept as its parts.     *)
(***************************************************************************)
\* range(n) as the sequence 0, 1, ..., n-1 (empty when n <= 0)
Range0(n) == [k \in 1..(IF n > 0 THEN n ELSE 0) |-> k - 1]

SSpace == <<" ">>

\* {s: speakers.count(s) for s in set(speakers)}
speaker_distribution(speakers) ==
    [sp \in {speakers[k] : k \in 1..Len(speakers)} |->
        Cardinality({k \in 1..Len(speakers) : speakers[k] = sp})]

\* the body of the loop of extract_dialogue_spans for one i
dialogue_span(turns, window_size, i) ==
    LET span_turns == Slice(turns, i, i + window_size)
        speakers == [j \in 1..Len(span_turns) |-> Get(span_turns[j], "speaker", "unknown")]
    IN  [span_id |-> <<Get(turns[1], "transcript_id", "unknown"), "_span_", i>>,
         text |-> Join(SSpace, [j \in 1..Len(span_turns) |-> Get(span_turns[j], "text", <<>>)]),
         start_turn_index |-> i,
         end_turn_index |-> i + window_size - 1,
         turn_ids |-> [j \in 1..Len(span_turns) |-> Get(span_turns[j], "turn_id", i + (j - 1))],
         speakers |-> speakers,
         transcript_id |-> Get(turns[1], "transcript_id", "unknown"),
         metadata |-> [window_size |-> window_size,
                       speaker_distribution |-> speaker_distribution(speakers)]]

\* the loop with range(len(turns) - window_size)
window_starts_short(turns, window_size) == Range0(Len(turns) - window_size)

\* the iterations of the loop:  range(len(turns) - window_size + 1)
window_starts(turns, window_size) == Range0(Len(turns) - window_size + 1)

\* TranscriptPreprocessor.extract_dialogue_spans
extract_dialogue_spans(turns, window_size) ==
    LET starts == window_starts(turns, window_size)
    IN  [k \in 1..Len(starts) |-> dialogue_span(turns, window_size, starts[k])]

\* the body of the loop of _create_spans_from_turns for one i
causal_span(turns, transcript_id, start_index, window_size, i) ==
    LET span_turns == Slice(turns, i, i + window_size)
        speakers == [j \in 1..Len(span_turns) |-> Get(span_turns[j], "speaker", "unknown")]
    IN  [span_id |-> <<transcript_id, "_causal_span_", i>>,
         text |-> Join(SSpace, [j \in 1..Len(span_turns) |-> Get(span_turns[j], "text", <<>>)]),
         start_turn_index |-> start_index + i,
         end_turn_index |-> start_index + i + window_size - 1,
         turn_ids |-> [j \in 1..Len(span_turns) |->
                          Get(span_turns[j], "turn_id", start_index + i + (j - 1))],
         speakers |-> speakers,
         transcript_id |-> transcript_id,
         metadata |-> [window_size |-> window_size,
                       speaker_distribution |-> speaker_distribution(speakers)]]

\* SpanExtractor._create_spans_from_turns
create_spans_from_turns(turns, transcript_id, start_index, window_size) ==
    LET starts == window_starts(turns, window_size)
    IN  [k \in 1..Len(starts) |->
            causal_span(turns, transcript_id, start_index, window_size, starts[k])]

max(a, b) == IF a >= b THEN a ELSE b

min(a, b) == IF a <= b THEN a ELSE b

\* the search of lines 39-47: Some(index) of the event's turn, None when it has none
event_turn_index_of(turns, event) ==
    IF "turn_index" \in DOMAIN event THEN Some(event.turn_index)
    ELSE IF "turn_id" \in DOMAIN event
         THEN LET found == {i \in 0..(Len(turns) - 1) :
                                /\ "turn_id" \in DOMAIN turns[i + 1]
                                /\ turns[i + 1].turn_id = event.turn_id}
              IN  IF found = {} THEN None
                  ELSE Some(CHOOSE i \in found : \A k \in found : i <= k)
         ELSE None

\* extract_causal_spans handing start_index = 0 to _create_spans_from_turns
extract_causal_spans_untranslated(transcript, event, window_before, window_after) ==
    LET turns == Get(transcript, "turns", <<>>)
        eti == event_turn_index_of(turns, event)
    IN  IF turns = <<>> \/ eti = None THEN <<>>
        ELSE LET start_index == max(0, eti[1] - window_before)
                 end_index == min(Len(turns), eti[1] + window_after + 1)
             IN  create_spans_from_turns(Slice(turns, start_index, end_index),
                                         Get(transcript, "transcript_id", "unknown"), 0, 5)

\* SpanExtractor.extract_causal_spans (window_size is left at its default, 5); the slice
\* turns[start_index:end_index] is taken for 0 <= start_index and 0 <= end_index, which
\* is what an event turn index >= 0 and windows >= 0 give
extract_causal_spans(transcript, event, window_before, window_after) ==
    LET turns == Get(transcript, "turns", <<>>)
        eti == event_turn_index_of(turns, event)
    IN  IF turns = <<>> \/ eti = None THEN <<>>
        ELSE LET start_index == max(0, eti[1] - window_before)
                 end_index == min(Len(turns), eti[1] + window_after + 1)
             IN  create_spans_from_turns(Slice(turns, start_index, end_index),
                                         Get(transcript, "transcript_id", "unknown"),
                                         start_index, 5)

\* [e for e in events if e.get('event_type', '').lower() == event_type.lower()]
relevant_events(transcript, event_type) ==
    SelectSeq(Get(transcript, "events", <<>>),
              LAMBDA e : Lower(Get(e, "event_type", <<>>)) = Lower(event_type))

RECURSIVE extend_all(_)
\* all_spans after the loop of lines 129-136 over the given lists of spans
extend_all(lists) ==
    IF lists = <<>> THEN <<>> ELSE lists[1] \o extend_all(Tail(lists))

\* extract_event_specific_spans calling extract_causal_spans with its default window_after
extract_event_specific_spans_after5(transcript, event_type, window_before) ==
    LET events == relevant_events(transcript, event_type)
    IN  extend_all([k \in 1..Len(events) |->
                        extract_causal_spans(transcript, events[k], window_before, 5)])

\* SpanExtractor.extract_event_specific_spans
extract_event_specific_spans(transcript, event_type, window_before) ==
    LET events == relevant_events(transcript, event_type)
    IN  extend_all([k \in 1..Len(events) |->
                        extract_causal_spans(transcript, events[k], window_before, 0)])

(***************************************************************************)
(* EvidenceScorer.                                                           *)
(***************************************************************************)
relevance_weight == Fraction(4, 10)

temporal_weight == Fraction(3, 10)

pattern_weight == Fraction(2, 10)

similarity_weight == Fraction(1, 10)

\* the default of span.get('temporal_score', 0.5)
temporal_default == Fraction(1, 2)

\* d[key] = val on a copy of the dict d
With(d, key, val) ==
    [k \in DOMAIN d \cup {key} |-> IF k = key THEN val ELSE d[k]]

\* the values read with temporal_score defaulting to 0
evidence_components_temporal_zero(span) ==
    [relevance |-> Get(span, "relevance_score", Get(span, "combined_score", Zero)),
     temporal |-> Get(span, "temporal_score", Zero),
     pattern |-> Get(span, "pattern_score", Zero),
     similarity |-> Get(span, "similarity_score", Zero)]

\* the four values read at lines 47-50
evidence_components(span) ==
    [relevance |-> Get(span, "relevance_score", Get(span, "combined_score", Zero)),
     temporal |-> Get(span, "temporal_score", temporal_default),
     pattern |-> Get(span, "pattern_score", Zero),
     similarity |-> Get(span, "similarity_score", Zero)]

\* the body of the loop of score_evidence for one span
score_span(span) ==
    LET c == evidence_components(span)
        evidence_score == Add(Add(Add(Mul(relevance_weight, c.relevance),
                                      Mul(temporal_weight, c.temporal)),
                                  Mul(pattern_weight, c.pattern)),
                              Mul(similarity_weight, c.similarity))
    IN  With(With(span, "evidence_score", evidence_score), "evidence_components", c)

\* the sort key  x.get('evidence_score', 0.0)
evidence_key(x) == Get(x, "evidence_score", Zero)

\* the place of x in a list sorted descending: behind every element whose key is >= its own
insert_desc(sorted, x) ==
    LET ahead == Cardinality({k \in 1..Len(sorted) :
                                Leq(evidence_key(x), evidence_key(sorted[k]))})
    IN  SubSeq(sorted, 1, ahead) \o <<x>> \o SubSeq(sorted, ahead + 1, Len(sorted))

\* the place of x in front of the elements with an equal key
insert_desc_before_ties(sorted, x) ==
    LET ahead == Cardinality({k \in 1..Len(sorted) :
                                Lt(evidence_key(x), evidence_key(sorted[k]))})
    IN  SubSeq(sorted, 1, ahead) \o <<x>> \o SubSeq(sorted, ahead + 1, Len(sorted))

RECURSIVE sorted_by_evidence_ties_reversed(_)
\* a descending sort that reverses the elements with equal keys
sorted_by_evidence_ties_reversed(seq) ==
    IF seq = <<>> THEN <<>>
    ELSE insert_desc_before_ties(sorted_by_evidence_ties_reversed(SubSeq(seq, 1, Len(seq) - 1)),
                                 seq[Len(seq)])

RECURSIVE sorted_by_evidence(_)
\* sort(key=evidence_score, reverse=True): descending and stable, elements with equal keys
\* keep their order
sorted_by_evidence(seq) ==
    IF seq = <<>> THEN <<>>
    ELSE insert_desc(sorted_by_evidence(SubSeq(seq, 1, Len(seq) - 1)), seq[Len(seq)])

\* EvidenceScorer.score_evidence
score_evidence(spans) ==
    sorted_by_evidence([k \in 1..Len(spans) |-> score_span(spans[k])])

\* the Python slice seq[:n] for an optional n >= 0
Truncate(seq, n) == IF n = None THEN seq ELSE Slice(seq, 0, n[1])

\* EvidenceScorer.rank_evidence
rank_evidence(spans, top_k) ==
    LET scored == IF \A k \in 1..Len(spans) : "evidence_score" \in DOMAIN spans[k]
                  THEN spans ELSE score_evidence(spans)
    IN  Truncate(sorted_by_evidence(scored), top_k)

RECURSIVE sum(_)
sum(seq) == IF seq = <<>> THEN 0 ELSE seq[1] + sum(Tail(seq))

\* np.mean of a non-empty list
mean(seq) == Mul(fsum(seq), Fraction(1, Len(seq)))

RECURSIVE extended(_)
\* the elements of the lists, as set(list) holds them
extended(lists) ==
    IF lists = <<>> THEN {}
    ELSE {lists[1][k] : k \in 1..Len(lists[1])} \cup extended(Tail(lists))

\* span.get('transcript_id') or span.get('metadata', {}).get('transcript_id')
span_transcript_id(span) ==
    IF Get(span, "transcript_id", "") # "" THEN span.transcript_id
    ELSE Get(Get(span, "metadata", [x \in {} |-> 0]), "transcript_id", "")

\* lines 125-163 for the given top spans; list(set(...)) is held as the set
aggregate(top_spans, max_spans) ==
    [text |-> Join(SSpace, [k \in 1..Len(top_spans) |-> Get(top_spans[k], "text", <<>>)]),
     spans |-> top_spans,
     turn_ids |-> extended([k \in 1..Len(top_spans) |-> Get(top_spans[k], "turn_ids", <<>>)]),
     speakers |-> extended([k \in 1..Len(top_spans) |-> Get(top_spans[k], "speakers", <<>>)]),
     transcript_ids |-> {span_transcript_id(top_spans[k]) : k \in 1..Len(top_spans)} \ {""},
     num_spans |-> Len(top_spans),
     avg_evidence_score |->
        IF top_spans # <<>> THEN mean([k \in 1..Len(top_spans) |-> evidence_key(top_spans[k])])
        ELSE Zero,
     metadata |-> [aggregation_method |-> "top_k", max_spans |-> max_spans]]

\* aggregate_evidence taking the mean over all the spans handed in
aggregate_evidence_mean_all(spans, max_spans) ==
    With(aggregate(Slice(spans, 0, max_spans), max_spans), "avg_evidence_score",
         IF spans # <<>> THEN mean([k \in 1..Len(spans) |-> evidence_key(spans[k])])
         ELSE Zero)

\* EvidenceScorer.aggregate_evidence
aggregate_evidence(spans, max_spans) ==
    aggregate(Slice(spans, 0, max_spans), max_spans)

\* filter_evidence truncating before it filters
filter_evidence_truncate_first(spans, min_score, max_spans) ==
    SelectSeq(Truncate(spans, max_spans), LAMBDA span : Leq(min_score, evidence_key(span)))

\* EvidenceScorer.filter_evidence
filter_evidence(spans, min_score, max_spans) ==
    Truncate(SelectSeq(spans, LAMBDA span : Leq(min_score, evidence_key(span))), max_spans)

(***************************************************************************)
(* CausalPatternDetector.                                                    *)
(***************************************************************************)
\* the lists of self.causal_indicators
causal_indicators ==
    [temporal |->
        <<<<"b", "e", "f", "o", "r", "e">>, <<"a", "f", "t", "e", "r">>,
          <<"t", "h", "e", "n">>, <<"n", "e", "x", "t">>,
          <<"p", "r", "e", "v", "i", "o", "u", "s", "l", "y">>,
          <<"e", "a", "r", "l", "i", "e", "r">>, <<"l", "a", "t", "e", "r">>>>,
     causal |->
        <<<<"b", "e", "c", "a", "u", "s", "e">>, <<"d", "u", "e", " ", "t", "o">>,
          <<"a", "s", " ", "a", " ", "r", "e", "s", "u", "l", "t">>,
          <<"l", "e", "d", " ", "t", "o">>, <<"c", "a", "u", "s", "e", "d">>,
          <<"r", "e", "s", "u", "l", "t", "e", "d", " ", "i", "n">>>>,
     conditional |->
        <<<<"i", "f">>, <<"w", "h", "e", "n">>, <<"u", "n", "l", "e", "s", "s">>,
          <<"p", "r", "o", "v", "i", "d", "e", "d", " ", "t", "h", "a", "t">>>>,
     consequence |->
        <<<<"t", "h", "e", "r", "e", "f", "o", "r", "e">>, <<"t", "h", "u", "s">>,
          <<"h", "e", "n", "c", "e">>,
          <<"c", "o", "n", "s", "e", "q", "u", "e", "n", "t", "l", "y">>, <<"s", "o">>>>]

\* the lists of self.behavioral_patterns
behavioral_patterns ==
    [hesitation |->
        <<<<"u", "m">>, <<"u", "h">>, <<"w", "e", "l", "l">>,
          <<"l", "e", "t", " ", "m", "e", " ", "t", "h", "i", "n", "k">>, <<"h", "m", "m">>>>,
     frustration |->
        <<<<"f", "r", "u", "s", "t", "r", "a", "t", "e", "d">>,
          <<"a", "n", "n", "o", "y", "e", "d">>, <<"u", "p", "s", "e", "t">>,
          <<"d", "i", "s", "a", "p", "p", "o", "i", "n", "t", "e", "d">>>>,
     repetition |->
        <<<<"a", "g", "a", "i", "n">>, <<"r", "e", "p", "e", "a", "t">>,
          <<"s", "a", "m", "e">>, <<"o", "n", "c", "e", " ", "m", "o", "r", "e">>>>,
     escalation_signals |->
        <<<<"s", "u", "p", "e", "r", "v", "i", "s", "o", "r">>,
          <<"m", "a", "n", "a", "g", "e", "r">>, <<"e", "s", "c", "a", "l", "a", "t", "e">>,
          <<"c", "o", "m", "p", "l", "a", "i", "n", "t">>, <<"f", "o", "r", "m", "a", "l">>>>,
     refund_signals |->
        <<<<"r", "e", "f", "u", "n", "d">>,
          <<"m", "o", "n", "e", "y", " ", "b", "a", "c", "k">>,
          <<"r", "e", "t", "u", "r", "n">>, <<"c", "a", "n", "c", "e", "l">>,
          <<"c", "h", "a", "r", "g", "e", "b", "a", "c", "k">>>>,
     churn_signals |->
        <<<<"c", "a", "n", "c", "e", "l">>,
          <<"c", "l", "o", "s", "e", " ", "a", "c", "c", "o", "u", "n", "t">>,
          <<"s", "w", "i", "t", "c", "h">>, <<"l", "e", "a", "v", "e">>,
          <<"t", "e", "r", "m", "i", "n", "a", "t", "e">>>>]

\* the keyword lists of _get_event_specific_patterns
event_triggers ==
    [escalation_triggers |->
        <<<<"n", "o", "t", " ", "s", "a", "t", "i", "s", "f", "i", "e", "d">>,
          <<"u", "n", "h", "a", "p", "p", "y">>,
          <<"w", "a", "n", "t", " ", "t", "o", " ", "s", "p", "e", "a", "k">>,
          <<"n", "e", "e", "d", " ", "m", "a", "n", "a", "g", "e", "r">>,
          <<"f", "i", "l", "e", " ", "c", "o", "m", "p", "l", "a", "i", "n", "t">>,
          <<"n", "o", "t", " ", "h", "e", "l", "p", "i", "n", "g">>,
          <<"w", "a", "s", "t", "e", " ", "o", "f", " ", "t", "i", "m", "e">>>>,
     refund_triggers |->
        <<<<"n", "o", "t", " ", "w", "o", "r", "k", "i", "n", "g">>,
          <<"d", "e", "f", "e", "c", "t", "i", "v", "e">>, <<"b", "r", "o", "k", "e", "n">>,
          <<"n", "o", "t", " ", "a", "s", " ", "d", "e", "s", "c", "r", "i", "b", "e", "d">>,
          <<"w", "a", "n", "t", " ", "m", "o", "n", "e", "y", " ", "b", "a", "c", "k">>,
          <<"d", "i", "s", "s", "a", "t", "i", "s", "f", "i", "e", "d">>,
          <<"p", "o", "o", "r", " ", "q", "u", "a", "l", "i", "t", "y">>>>,
     churn_triggers |->
        <<<<"t", "o", "o", " ", "e", "x", "p", "e", "n", "s", "i", "v", "e">>,
          <<"b", "e", "t", "t", "e", "r", " ", "o", "p", "t", "i", "o", "n">>,
          <<"s", "w", "i", "t", "c", "h", "i", "n", "g">>,
          <<"l", "e", "a", "v", "i", "n", "g">>,
          <<"n", "o", "t", " ", "w", "o", "r", "t", "h", " ", "i", "t">>,
          <<"f", "o", "u", "n", "d", " ", "a", "l", "t", "e", "r", "n", "a", "t", "i", "v", "e">>,
          <<"b", "e", "t", "t", "e", "r", " ", "d", "e", "a", "l">>>>]

\* a character \w matches: a letter, a digit or the underscore
IsWordChar(c) ==
    \/ c \in DOMAIN UpperToLower
    \/ c \in {UpperToLower[u] : u \in DOMAIN UpperToLower}
    \/ c \in {"0", "1", "2", "3", "4", "5", "6", "7", "8", "9", "_"}

\* \b holds between the characters p and p+1 of text (p = 0: before the first one)
WordBoundary(text, p) ==
    LET left == p >= 1 /\ IsWordChar(text[p])
        right == p < Len(text) /\ IsWordChar(text[p + 1])
    IN  left # right

\* len(re.findall(r'\b' + re.escape(indicator) + r'\b', text)); the indicators have no
\* proper border, so word-bounded matches never overlap
findall_count(indicator, text) ==
    Cardinality({p \in 1..(Len(text) - Len(indicator) + 1) :
                    /\ SubSeq(text, p, p + Len(indicator) - 1) = indicator
                    /\ WordBoundary(text, p - 1)
                    /\ WordBoundary(text, p + Len(indicator) - 1)})

\* CausalPatternDetector._count_indicators
count_indicators(text, indicators) ==
    sum([k \in 1..Len(indicators) |-> findall_count(indicators[k], text)])

SChurn == <<"c","h","u","r","n">>

SChurnCapital == <<"C","h","u","r","n">>

SRefund == <<"r","e","f","u","n","d">>

SEscalation == <<"e","s","c","a","l","a","t","i","o","n">>

\* CausalPatternDetector._get_event_specific_patterns: the names of the lists returned
get_event_specific_patterns(event_type) ==
    LET event_type_lower == Lower(event_type)
    IN  IF Contains(event_type_lower, SEscalation) THEN {"escalation_triggers"}
        ELSE IF Contains(event_type_lower, SRefund) THEN {"refund_triggers"}
        ELSE IF Contains(event_type_lower, SChurn) THEN {"churn_triggers"}
        ELSE {}

\* the keys _detect_behavioral_patterns sets for the list called name: the flag and, in
\* the key name_count, the count
BehavioralFlags == DOMAIN behavioral_patterns

EventFlags == {"event_escalation_triggers", "event_refund_triggers", "event_churn_triggers"}

EventFlagOf == [escalation_triggers |-> "event_escalation_triggers",
                refund_triggers |-> "event_refund_triggers",
                churn_triggers |-> "event_churn_triggers"]

\* CausalPatternDetector._detect_behavioral_patterns: flags holds the boolean entries of
\* the dict (detected[name], detected['event_' + name]) and counts the integer entries
\* (the same keys with the suffix _count)
detect_behavioral_patterns(text, event_type) ==
    LET names == IF event_type # None /\ event_type[1] # <<>>
                 THEN get_event_specific_patterns(event_type[1]) ELSE {}
        counts == [k \in BehavioralFlags \cup {EventFlagOf[n] : n \in names} |->
                      IF k \in BehavioralFlags
                      THEN count_indicators(text, behavioral_patterns[k])
                      ELSE count_indicators(text,
                              event_triggers[CHOOSE n \in names : EventFlagOf[n] = k])]
    IN  [flags |-> [k \in DOMAIN counts |-> counts[k] > 0], counts |-> counts]

\* the weights of lines 126-131
pattern_weights ==
    [temporal_indicators |-> Fraction(2, 10), causal_indicators |-> Fraction(4, 10),
     conditional_indicators |-> Fraction(2, 10), consequence_indicators |-> Fraction(2, 10)]

\* the keys of weights in the order the loop of line 133 visits them
pattern_indicators ==
    <<"temporal_indicators", "causal_indicators", "conditional_indicators",
      "consequence_indicators">>

\* any(behavioral.get(k, False) for k in behavioral.keys() if isinstance(..., bool))
any_behavioral(patterns) ==
    LET behavioral == Get(patterns, "behavioral_patterns", [flags |-> <<>>, counts |-> <<>>])
    IN  \E k \in DOMAIN behavioral.flags : behavioral.flags[k]

\* _calculate_pattern_score without the cap of a count at 5 occurrences
calculate_pattern_score_uncapped_counts(patterns) ==
    LET score == Add(fsum([k \in 1..Len(pattern_indicators) |->
                            Mul(pattern_weights[pattern_indicators[k]],
                                Fraction(Get(patterns, pattern_indicators[k], 0), 5))]),
                     IF any_behavioral(patterns) THEN Fraction(2, 10) ELSE Zero)
    IN  fmin(score, One)

\* CausalPatternDetector._calculate_pattern_score
calculate_pattern_score(patterns) ==
    LET score == Add(fsum([k \in 1..Len(pattern_indicators) |->
                            Mul(pattern_weights[pattern_indicators[k]],
                                fmin(Fraction(Get(patterns, pattern_indicators[k], 0), 5),
                                     One))]),
                     IF any_behavioral(patterns) THEN Fraction(2, 10) ELSE Zero)
    IN  fmin(score, One)

\* CausalPatternDetector.detect_patterns
detect_patterns(span, event_type) ==
    LET text == Lower(Get(span, "text", <<>>))
        patterns == [temporal_indicators |-> count_indicators(text, causal_indicators.temporal),
                     causal_indicators |-> count_indicators(text, causal_indicators.causal),
                     conditional_indicators |->
                        count_indicators(text, causal_indicators.conditional),
                     consequence_indicators |->
                        count_indicators(text, causal_indicators.consequence),
                     behavioral_patterns |-> detect_behavioral_patterns(text, event_type),
                     pattern_score |-> Zero]
    IN  [patterns EXCEPT !.pattern_score = calculate_pattern_score(patterns)]

\* the temporal score decaying by a tenth per turn, 1 - distance/10
temporal_score_linear(distance) == Fraction(10 - distance, 10)

\* lines 180-183: 1.0 at distance 0, else 1.0 / (1.0 + distance / 10.0) = 10 / (10 + distance)
temporal_score(distance) ==
    IF distance = 0 THEN One ELSE Fraction(10, 10 + distance)

\* the loop body measuring the distance of a preceding span from its start
temporal_annotation_from_start(span, event_turn_index) ==
    LET span_start == Get(span, "start_turn_index", 0)
        span_end == Get(span, "end_turn_index", 0)
        temporal_relation == IF span_end < event_turn_index THEN "precedes"
                             ELSE IF span_start > event_turn_index THEN "follows"
                             ELSE "overlaps"
        distance == IF span_end < event_turn_index THEN event_turn_index - span_start
                    ELSE IF span_start > event_turn_index THEN span_start - event_turn_index
                    ELSE 0
    IN  With(With(With(span, "temporal_relation", temporal_relation),
                  "temporal_distance", distance),
             "temporal_score", temporal_score(distance))

\* the body of the loop of detect_temporal_patterns for one span
temporal_annotation(span, event_turn_index) ==
    LET span_start == Get(span, "start_turn_index", 0)
        span_end == Get(span, "end_turn_index", 0)
        temporal_relation == IF span_end < event_turn_index THEN "precedes"
                             ELSE IF span_start > event_turn_index THEN "follows"
                             ELSE "overlaps"
        distance == IF span_end < event_turn_index THEN event_turn_index - span_end
                    ELSE IF span_start > event_turn_index THEN span_start - event_turn_index
                    ELSE 0
    IN  With(With(With(span, "temporal_relation", temporal_relation),
                  "temporal_distance", distance),
             "temporal_score", temporal_score(distance))

\* CausalPatternDetector.detect_temporal_patterns
detect_temporal_patterns(spans, event_turn_index) ==
    [k \in 1..Len(spans) |-> temporal_annotation(spans[k], event_turn_index)]

\* the sort key  x.get('start_turn_index', 0)
start_key(x) == Get(x, "start_turn_index", 0)

RECURSIVE sorted_by_start(_)
\* sorted(spans, key=start_turn_index): ascending and stable
sorted_by_start(seq) ==
    IF seq = <<>> THEN <<>>
    ELSE LET rest == sorted_by_start(SubSeq(seq, 1, Len(seq) - 1))
             x == seq[Len(seq)]
             ahead == Cardinality({k \in 1..Len(rest) : start_key(rest[k]) <= start_key(x)})
         IN  SubSeq(rest, 1, ahead) \o <<x>> \o SubSeq(rest, ahead + 1, Len(rest))

abs(x) == IF x < 0 THEN -x ELSE x

\* CausalPatternDetector._is_sequential
is_sequential(span1, span2) ==
    abs(Get(span2, "start_turn_index", 0) - Get(span1, "end_turn_index", 0)) <= 2

\* CausalPatternDetector.detect_sequential_patterns; min(indicators / 2.0, 1.0) as a fraction
detect_sequential_patterns(spans) ==
    IF Len(spans) < 2 THEN spans
    ELSE LET sorted_spans == sorted_by_start(spans)
             indicators(i) ==
                (IF i > 1 /\ is_sequential(sorted_spans[i - 1], sorted_spans[i]) THEN 1 ELSE 0)
                + (IF i < Len(sorted_spans) /\ is_sequential(sorted_spans[i], sorted_spans[i + 1])
                   THEN 1 ELSE 0)
         IN  [i \in 1..Len(sorted_spans) |->
                With(With(sorted_spans[i], "sequential_indicators", indicators(i)),
                     "sequential_score",
                     fmin(Fraction(indicators(i), 2), One))]

(***************************************************************************)
(* RetrievalPipeline.retrieve.  A distance is Some(d), or None for Python's  *)
(* None.                                                                     *)
(***************************************************************************)
\* 1.0 - r.get('distance', 0.0) if r.get('distance') else 0.0 : the conditional expression
\* binds weaker than the subtraction, and None and 0.0 are both falsy
similarity_score_of(r) ==
    LET distance == Get(r, "distance", None)
    IN  IF distance # None /\ distance[1] # Zero THEN Sub(One, distance[1]) ELSE Zero

\* the span built from one search result, lines 57-62
result_span(r) ==
    [text |-> r.text, span_id |-> r.span_id, metadata |-> r.metadata,
     similarity_score |-> similarity_score_of(r)]

RECURSIVE sorted_by_relevance(_)
\* results.sort(key=relevance_score, reverse=True): descending and stable
sorted_by_relevance(seq) ==
    IF seq = <<>> THEN <<>>
    ELSE LET rest == sorted_by_relevance(SubSeq(seq, 1, Len(seq) - 1))
             x == seq[Len(seq)]
             ahead == Cardinality({k \in 1..Len(rest) :
                                      Leq(x.relevance_score, rest[k].relevance_score)})
         IN  SubSeq(rest, 1, ahead) \o <<x>> \o SubSeq(rest, ahead + 1, Len(rest))

\* Reranker.rerank with the scores the cross-encoder returned for the spans
rerank(spans, scores, top_k) ==
    IF spans = <<>> THEN <<>>
    ELSE Truncate(sorted_by_relevance([i \in 1..Len(spans) |->
                                          With(spans[i], "relevance_score",
                                               Fraction(scores[i], 10))]),
                  top_k)

\* RetrievalPipeline.retrieve for the results the vector store returned (None: no vector
\* store) and the scores of the reranker (None: no reranking)
retrieve(results, scores, rerank_top_k) ==
    LET spans == IF results # None
                 THEN [i \in 1..Len(results[1]) |-> result_span(results[1][i])]
                 ELSE <<>>
    IN  IF scores # None /\ spans # <<>> THEN rerank(spans, scores[1], Some(rerank_top_k))
        ELSE Slice(spans, 0, rerank_top_k)

(***************************************************************************)
(* LLMGenerator._extract_citations.                                          *)
(***************************************************************************)
SEvidenceTag == <<"[","e","v","i","d","e","n","c","e">>

Digits == <<"0", "1", "2", "3", "4", "5", "6", "7", "8", "9">>

IsDigit(c) == \E d \in 1..10 : Digits[d] = c

\* \s+ from position p: the first position from p on that holds no whitespace, Len + 1
\* when the whitespace runs to the end
SpaceRunEnd(text, p) ==
    CHOOSE q \in p..(Len(text) + 1) :
        /\ \A k \in p..(q - 1) : IsSpace(text[k])
        /\ q = Len(text) + 1 \/ ~IsSpace(text[q])

\* \d+ from position p: the first position from p on that holds no digit
DigitRunEnd(text, p) ==
    CHOOSE q \in p..(Len(text) + 1) :
        /\ \A k \in p..(q - 1) : IsDigit(text[k])
        /\ q = Len(text) + 1 \/ ~IsDigit(text[q])

RECURSIVE int(_)
\* int() of a string of decimal digits
int(digits) ==
    IF digits = <<>> THEN 0
    ELSE 10 * int(SubSeq(digits, 1, Len(digits) - 1))
            + (CHOOSE d \in 0..9 : Digits[d + 1] = digits[Len(digits)])

\* the match of r'\[Evidence\s+(\d+)\]' with re.IGNORECASE starting at position p of the
\* text: Some(<<int(group 1), position behind the match>>), or None
match_evidence(text, p) ==
    LET ws == p + Len(SEvidenceTag)
    IN  IF ws - 1 <= Len(text) /\ Lower(SubSeq(text, p, ws - 1)) = SEvidenceTag
        THEN LET ds == SpaceRunEnd(text, ws)
                 de == DigitRunEnd(text, ds)
             IN  IF ds > ws /\ de > ds /\ de <= Len(text) /\ text[de] = "]"
                 THEN Some(<<int(SubSeq(text, ds, de - 1)), de + 1>>)
                 ELSE None
        ELSE None

RECURSIVE finditer(_, _)
\* re.finditer from position p on: the numbers of the matches, left to right, each match
\* starting behind the one before it
finditer(text, p) ==
    IF p > Len(text) THEN <<>>
    ELSE LET m == match_evidence(text, p)
         IN  IF m = None THEN finditer(text, p + 1)
             ELSE <<m[1][1]>> \o finditer(text, m[1][2])

\* the citation built at lines 212-219 for evidence_num
citation(evidence_num, span) ==
    [evidence_number |-> evidence_num,
     span_id |-> Get(span, "span_id", "unknown"),
     text |-> Slice(Get(span, "text", <<>>), 0, 200),
     transcript_id |-> Get(Get(span, "metadata", <<>>), "transcript_id", "unknown"),
     turn_ids |-> Get(span, "turn_ids", <<>>)]

\* _extract_citations accepting 0 <= evidence_num, evidence[-1] being the last span
extract_citations_zero_based(explanation, evidence) ==
    LET nums == SelectSeq(finditer(explanation, 1),
                          LAMBDA n : 0 <= n /\ n <= Len(evidence) /\ evidence # <<>>)
    IN  [k \in 1..Len(nums) |->
            citation(nums[k], evidence[IF nums[k] = 0 THEN Len(evidence) ELSE nums[k]])]

\* LLMGenerator._extract_citations
extract_citations(explanation, evidence) ==
    LET nums == SelectSeq(finditer(explanation, 1), LAMBDA n : 1 <= n /\ n <= Len(evidence))
    IN  [k \in 1..Len(nums) |-> citation(nums[k], evidence[nums[k]])]

(***************************************************************************)
(* The responses of the two paths: Task1Processor.format_response,          *)
(* FollowUpProcessor.format_response and the tail of                        *)
(* Task2Processor.process_query.  A default span_id f'evidence_{i}' is kept  *)
(* as its parts.                                                            *)
(***************************************************************************)
\* Task1Processor.format_response, lines 74-87: the entry of the i-th evidence span
task1_formatted_span(i, span) ==
    [evidence_id |-> i,
     span_id |-> Get(span, "span_id", <<"evidence", i>>),
     text |-> Slice(Get(span, "text", <<>>), 0, 500),
     transcript_id |-> Get(Get(span, "metadata", <<>>), "transcript_id", "unknown"),
     turn_ids |-> Get(span, "turn_ids", <<>>),
     evidence_score |-> Get(span, "evidence_score", Zero),
     metadata |-> [speakers |-> Get(span, "speakers", <<>>),
                   temporal_relation |-> Get(span, "temporal_relation", "unknown"),
                   pattern_score |-> Get(span, "pattern_score", Zero)]]

\* Task1Processor.format_response
task1_format_response(result) ==
    LET shown == Slice(result.evidence, 0, 10)
    IN  [response |-> result.full_explanation,
         summary |-> result.summary,
         key_factors |-> result.key_factors,
         causal_mechanisms |-> result.causal_mechanisms,
         evidence |-> [i \in 1..Len(shown) |-> task1_formatted_span(i, shown[i])],
         citations |-> result.citations,
         metadata |-> [query |-> result.query,
                       event_type |-> result.parsed_query.event_type,
                       intent |-> result.parsed_query.intent,
                       evidence_count |-> result.evidence_count]]

\* FollowUpProcessor.format_response, lines 162-170: the entry of the i-th evidence span
followup_formatted_span(i, span) ==
    [evidence_id |-> i,
     span_id |-> Get(span, "span_id", <<"evidence", i>>),
     text |-> Slice(Get(span, "text", <<>>), 0, 500),
     transcript_id |-> Get(Get(span, "metadata", <<>>), "transcript_id", "unknown"),
     turn_ids |-> Get(span, "turn_ids", <<>>),
     evidence_score |-> Get(span, "evidence_score", Zero)]

\* FollowUpProcessor.format_response
followup_format_response(result) ==
    LET shown == Slice(result.evidence, 0, 10)
    IN  [response |-> result.explanation,
         evidence |-> [i \in 1..Len(shown) |-> followup_formatted_span(i, shown[i])],
         citations |-> result.citations,
         metadata |-> [query |-> result.query,
                       enhanced_query |-> result.enhanced_query,
                       is_followup |-> result.is_followup,
                       event_type |-> result.parsed_query.event_type,
                       context_used |-> result.context_used,
                       context_turns |-> result.context_turns,
                       evidence_count |-> result.evidence_count]]

\* Task2Processor.process_query, lines 59-82: what the INITIAL path returns for the result
\* of Task1Processor.process_query
initial_response(result, conversation_id) ==
    LET formatted == task1_format_response(result)
    IN  [formatted EXCEPT !.metadata =
            [key \in DOMAIN formatted.metadata \cup {"conversation_id", "is_followup"} |->
                IF key = "conversation_id" THEN conversation_id
                ELSE IF key = "is_followup" THEN FALSE
                ELSE formatted.metadata[key]]]

\* Task2Processor.process_query, lines 51-58: what the FOLLOWUP path returns for the result
\* of FollowUpProcessor.process_followup
followup_response(result) == followup_format_response(result)

\* Task1Processor.process_query, lines 46-57, for what the parser and the explanation
\* generator return
task1_result(query, intent, explanation, evidence) ==
    [query |-> query,
     parsed_query |-> [event_type |-> extract_event_type(Lower(query)), intent |-> intent],
     explanation |-> explanation,
     summary |-> <<>>,
     key_factors |-> <<>>,
     causal_mechanisms |-> <<>>,
     evidence |-> evidence,
     citations |-> extract_citations(explanation, evidence),
     evidence_count |-> Len(evidence),
     full_explanation |-> explanation]

\* FollowUpProcessor.process_followup, lines 96-107
followup_result(query, context, isf, explanation, analyzed_spans) ==
    LET enhanced_query == enhance_query_with_context(query, context)
    IN  [query |-> query,
         enhanced_query |-> enhanced_query,
         is_followup |-> isf,
         parsed_query |-> [event_type |-> extract_event_type(Lower(enhanced_query))],
         explanation |-> explanation,
         evidence |-> analyzed_spans,
         citations |-> extract_citations(explanation, analyzed_spans),
         evidence_count |-> Len(analyzed_spans),
         context_used |-> Len(context) > 0,
         context_turns |-> Len(context)]

(***************************************************************************)
(* CausalAnalyzer.  An optional event_turn_index is Some(i), or None.        *)
(***************************************************************************)
\* dict.update on a copy: the entries of d with those of e written over them
Update(d, e) == [k \in DOMAIN d \cup DOMAIN e |-> IF k \in DOMAIN e THEN e[k] ELSE d[k]]

\* lines 51-66: pattern, temporal and sequential annotation of the spans
annotate(spans, event_type, event_turn_index) ==
    LET analyzed_spans ==
            [k \in 1..Len(spans) |-> Update(spans[k], detect_patterns(spans[k], event_type))]
        timed == IF event_turn_index # None
                 THEN detect_temporal_patterns(analyzed_spans, event_turn_index[1])
                 ELSE analyzed_spans
    IN  detect_sequential_patterns(timed)

\* analyze_causal_spans scoring the spans it is given and annotating them afterwards
analyze_causal_spans_score_first(spans, event_type, event_turn_index, top_k) ==
    annotate(rank_evidence(score_evidence(spans), Some(top_k)), event_type, event_turn_index)

\* analyze_causal_spans keeping the detected patterns in place of the annotated copies
analyze_causal_spans_patterns_only(spans, event_type, event_turn_index, top_k) ==
    LET patterns == [k \in 1..Len(spans) |-> detect_patterns(spans[k], event_type)]
        timed == IF event_turn_index # None
                 THEN detect_temporal_patterns(patterns, event_turn_index[1])
                 ELSE patterns
    IN  rank_evidence(score_evidence(detect_sequential_patterns(timed)), Some(top_k))

\* CausalAnalyzer.analyze_causal_spans
analyze_causal_spans(spans, event_type, event_turn_index, top_k) ==
    rank_evidence(score_evidence(annotate(spans, event_type, event_turn_index)), Some(top_k))

\* line 103:  event.get('turn_index') or event.get('turn_id')
rationale_event_turn_index(event) ==
    IF "turn_index" \in DOMAIN event /\ event.turn_index # 0 THEN Some(event.turn_index)
    ELSE IF "turn_id" \in DOMAIN event THEN Some(event.turn_id)
    ELSE None

\* CausalAnalyzer.extract_causal_rationale
extract_causal_rationale(transcript, event, query, top_k) ==
    LET event_type == Get(event, "event_type", <<>>)
        event_turn_index == rationale_event_turn_index(event)
        causal_spans == extract_causal_spans(transcript, event, 10, 5)
        analyzed_spans == analyze_causal_spans(causal_spans, Some(event_type),
                                               event_turn_index, top_k)
        aggregated == aggregate_evidence(analyzed_spans, top_k)
    IN  [event |-> event,
         query |-> query,
         causal_spans |-> analyzed_spans,
         aggregated_evidence |-> aggregated,
         rationale |-> [top_spans |-> Slice(analyzed_spans, 0, top_k),
                        num_spans |-> Len(analyzed_spans),
                        avg_evidence_score |-> Get(aggregated, "avg_evidence_score", Zero)]]

(***************************************************************************)
(* Calls of the pure functions on inputs drawn from bounded sets.          *)
(***************************************************************************)
QAlsoWhy == <<"A","l","s","o"," ","w","h","y"," ","d","i","d"," ","c","u","s","t","o","m","e","r","s"," ","c","a","n","c","e","l"," ","p","l","a","n","s">>

QTabbed == <<"w","h","y","\t","n","o","w"," "," ","t","h","e","m">>

\* words the queries handed to is_followup are built from
Vocabulary == {<<"p","l","a","n","s">>, <<"s","u","b","m","i","t">>, <<"t","h","e","m">>, <<"A","l","s","o">>, <<"i","t","?">>}

WordLists == UNION {[1..n -> Vocabulary] : n \in 1..MaxWords}

QueryPool ==
    {Join(SSpace, ws) : ws \in WordLists} \cup {QWhyCancel, QWhatAboutThat, QWhatAboutIt, QAlsoWhy, QTabbed}

E1 == <<"E","1">>

InitialTurn(query) ==
    ConversationTurn(query, E1, [is_followup |-> FALSE,
                                 event_type |-> extract_event_type(Lower(query)),
                                 evidence_count |-> 2])

\* stores handed to is_followup: conversation c1 unknown, empty, with one turn, with two turns
StorePool ==
    {EmptyStore,
     [c \in {"c1"} |-> <<>>],
     [c \in {"c1"} |-> <<InitialTurn(QWhyCancel)>>],
     [c \in {"c1"} |-> <<InitialTurn(QWhyCancel), InitialTurn(QWhatAboutThat)>>]}

\* context items handed to _enhance_query_with_context; the last one has no 'query' key
ItemPool ==
    {[query |-> QWhyCancel, response |-> E1],
     [query |-> QWhatAboutThat, response |-> E1],
     [response |-> E1]}

ContextPool == UNION {[1..n -> ItemPool] : n \in 0..MaxContext}

\* turns handed to the span extractors; the last one has only a text
TurnPool ==
    {[turn_id |-> 101, speaker |-> "agent", text |-> <<"h","i">>, transcript_id |-> "T1"],
     [turn_id |-> 102, speaker |-> "customer", text |-> <<"n","o">>, transcript_id |-> "T2"],
     [text |-> <<"o","k">>]}

TurnLists == UNION {[1..n -> TurnPool] : n \in 0..MaxTurns}

WindowSizes == 1..(MaxTurns + 1)

OrchestratorIdle ==
    /\ next_uuid = 0
    /\ pc = [w \in Workers |-> "idle"]
    /\ frame = [w \in Workers |-> IdleFrame]
    /\ started = 0
    /\ serialized = FALSE

InitIsFollowup ==
    /\ OrchestratorIdle
    /\ conversations \in StorePool
    /\ \E query \in QueryPool :
        call = [fn |-> "is_followup", query |-> query, conversation_id |-> "c1",
                returned |-> FALSE, ret |-> FALSE]

CallIsFollowup ==
    /\ call.fn = "is_followup"
    /\ ~call.returned
    /\ call' = [call EXCEPT !.returned = TRUE,
                            !.ret = is_followup(conversations, call.query, call.conversation_id)]
    /\ UNCHANGED <<conversations, next_uuid, pc, frame, started, serialized>>

NextIsFollowup == CallIsFollowup

SpecIsFollowup == InitIsFollowup /\ [][NextIsFollowup]_vars

InitEnhance ==
    /\ OrchestratorIdle
    /\ conversations = EmptyStore
    /\ \E query \in Queries \cup {QWhatAboutIt}, context \in ContextPool :
        call = [fn |-> "_enhance_query_with_context", query |-> query, context |-> context,
                returned |-> FALSE, ret |-> <<>>]

CallEnhance ==
    /\ call.fn = "_enhance_query_with_context"
    /\ ~call.returned
    /\ call' = [call EXCEPT !.returned = TRUE,
                            !.ret = enhance_query_with_context(call.query, call.context)]
    /\ UNCHANGED <<conversations, next_uuid, pc, frame, started, serialized>>

NextEnhance == CallEnhance

SpecEnhance == InitEnhance /\ [][NextEnhance]_vars

InitSpans ==
    /\ OrchestratorIdle
    /\ conversations = EmptyStore
    /\ \E turns \in TurnLists, window_size \in WindowSizes :
        \/ call = [fn |-> "extract_dialogue_spans", turns |-> turns, window_size |-> window_size,
                   returned |-> FALSE, ret |-> <<>>]
        \/ \E start_index \in {0, 1} :
            call = [fn |-> "_create_spans_from_turns", turns |-> turns, transcript_id |-> "T1",
                    start_index |-> start_index, window_size |-> window_size,
                    returned |-> FALSE, ret |-> <<>>]

CallExtractDialogueSpans ==
    /\ call.fn = "extract_dialogue_spans"
    /\ ~call.returned
    /\ call' = [call EXCEPT !.returned = TRUE,
                            !.ret = extract_dialogue_spans(call.turns, call.window_size)]
    /\ UNCHANGED <<conversations, next_uuid, pc, frame, started, serialized>>

CallCreateSpansFromTurns ==
    /\ call.fn = "_create_spans_from_turns"
    /\ ~call.returned
    /\ call' = [call EXCEPT !.returned = TRUE,
                            !.ret = create_spans_from_turns(call.turns, call.transcript_id,
                                                            call.start_index, call.window_size)]
    /\ UNCHANGED <<conversations, next_uuid, pc, frame, started, serialized>>

NextSpans == CallExtractDialogueSpans \/ CallCreateSpansFromTurns

SpecSpans == InitSpans /\ [][NextSpans]_vars

\* the turn at position k-1 of a transcript; ids says which turns carry a turn_id
EventTurn(k, ids) ==
    IF ids = "all" \/ (ids = "odd" /\ k % 2 = 1)
    THEN [turn_id |-> 100 + k, speaker |-> IF k % 2 = 1 THEN "agent" ELSE "customer",
          text |-> <<"t">>]
    ELSE [speaker |-> IF k % 2 = 1 THEN "agent" ELSE "customer", text |-> <<"t">>]

\* a transcript of n turns with the given events
EventTranscript(n, ids, events) ==
    IF ids = "none"
    THEN [turns |-> [k \in 1..n |-> EventTurn(k, ids)], events |-> events]
    ELSE [transcript_id |-> "T1", turns |-> [k \in 1..n |-> EventTurn(k, ids)],
          events |-> events]

\* events anchored at a turn of a transcript of n turns, by index or by turn id, an event
\* whose turn id no turn carries and an event without anchor
AnchoredEvents(n) ==
    {[event_type |-> SChurn, turn_index |-> a] : a \in 0..(n - 1)}
        \cup {[event_type |-> SChurn, turn_id |-> 100 + k] : k \in 1..n}
        \cup {[event_type |-> SChurn, turn_id |-> 999], [event_type |-> SChurn]}

\* the events a transcript of n turns lists: of two types and two spellings, anchored at
\* turn 4 or at the last turn, and one that names no type
ListedEvents(n) ==
    {[event_type |-> t, turn_index |-> a] :
        t \in {SChurn, SChurnCapital, SRefund}, a \in {4, n - 1} \cap (0..(n - 1))}
        \cup {[event_type |-> SChurn, turn_id |-> 100 + n], [turn_index |-> 0]}

EventLists(n) == UNION {[1..m -> ListedEvents(n)] : m \in 0..2}

WindowsBefore == {0, 3, 4, 10}

WindowsAfter == {0, 1, 2, 5}

InitEventSpans ==
    /\ OrchestratorIdle
    /\ conversations = EmptyStore
    /\ \E n \in 0..MaxEventTurns, window_before \in WindowsBefore :
        \/ \E ids \in {"all", "odd", "none"}, event \in AnchoredEvents(n),
              window_after \in WindowsAfter, keyed \in BOOLEAN :
            call = [fn |-> "extract_causal_spans",
                    transcript |-> IF keyed THEN EventTranscript(n, ids, <<>>)
                                   ELSE [transcript_id |-> "T1"],
                    event |-> event, window_before |-> window_before,
                    window_after |-> window_after, returned |-> FALSE, ret |-> <<>>]
        \/ \E events \in EventLists(n), event_type \in {SChurn, SRefund} :
            call = [fn |-> "extract_event_specific_spans",
                    transcript |-> EventTranscript(n, "all", events),
                    event_type |-> event_type, window_before |-> window_before,
                    returned |-> FALSE, ret |-> <<>>]

CallExtractCausalSpans ==
    /\ call.fn = "extract_causal_spans"
    /\ ~call.returned
    /\ call' = [call EXCEPT !.returned = TRUE,
                            !.ret = extract_causal_spans(call.transcript, call.event,
                                                         call.window_before, call.window_after)]
    /\ UNCHANGED <<conversations, next_uuid, pc, frame, started, serialized>>

CallExtractEventSpecificSpans ==
    /\ call.fn = "extract_event_specific_spans"
    /\ ~call.returned
    /\ call' = [call EXCEPT !.returned = TRUE,
                            !.ret = extract_event_specific_spans(call.transcript, call.event_type,
                                                                 call.window_before)]
    /\ UNCHANGED <<conversations, next_uuid, pc, frame, started, serialized>>

NextEventSpans == CallExtractCausalSpans \/ CallExtractEventSpecificSpans

SpecEventSpans == InitEventSpans /\ [][NextEventSpans]_vars

\* spans handed to the scorer: with every component, with a combined score only, bare,
\* with both relevance and combined score, with every component at 1, and three that
\* already carry an evidence score
SpanPool ==
    {[span_id |-> "s1", relevance_score |-> One, similarity_score |-> Zero,
      pattern_score |-> Zero, temporal_score |-> Zero, text |-> <<"a">>,
      turn_ids |-> <<1, 2>>, speakers |-> <<"agent", "customer">>, transcript_id |-> "T1"],
     [span_id |-> "s2", combined_score |-> Fraction(5, 10), text |-> <<"b">>,
      turn_ids |-> <<2, 3>>, speakers |-> <<"agent">>, metadata |-> [transcript_id |-> "T2"]],
     [span_id |-> "s3"],
     [span_id |-> "s4", relevance_score |-> Zero, combined_score |-> One,
      temporal_score |-> Fraction(5, 10)],
     [span_id |-> "s5", relevance_score |-> One, similarity_score |-> One,
      pattern_score |-> One, temporal_score |-> One, text |-> <<"e">>],
     [span_id |-> "s6", evidence_score |-> Fraction(90, 100), text |-> <<"c">>,
      turn_ids |-> <<1>>, speakers |-> <<"customer">>, transcript_id |-> "T1"],
     [span_id |-> "s7", evidence_score |-> Fraction(15, 100), relevance_score |-> One],
     [span_id |-> "s8", evidence_score |-> Fraction(30, 100), text |-> <<"d">>,
      turn_ids |-> <<4>>]}

SpanLists == UNION {[1..n -> SpanPool] : n \in 0..MaxSpans}

TopKs == {None, Some(0), Some(1), Some(2), Some(5)}

\* thresholds; 0.3 is the default min_score
MinScores == {Zero, Fraction(15, 100), Fraction(3, 10), Fraction(95, 100)}

InitScorer ==
    /\ OrchestratorIdle
    /\ conversations = EmptyStore
    /\ \E spans \in SpanLists :
        \/ call = [fn |-> "score_evidence", spans |-> spans, returned |-> FALSE, ret |-> <<>>]
        \/ \E top_k \in TopKs :
            call = [fn |-> "rank_evidence", spans |-> spans, top_k |-> top_k,
                    returned |-> FALSE, ret |-> <<>>]
        \/ \E max_spans \in {0, 1, 2, 10} :
            call = [fn |-> "aggregate_evidence", spans |-> spans, max_spans |-> max_spans,
                    returned |-> FALSE, ret |-> <<>>]
        \/ \E min_score \in MinScores, max_spans \in TopKs :
            call = [fn |-> "filter_evidence", spans |-> spans, min_score |-> min_score,
                    max_spans |-> max_spans, returned |-> FALSE, ret |-> <<>>]

CallScoreEvidence ==
    /\ call.fn = "score_evidence"
    /\ ~call.returned
    /\ call' = [call EXCEPT !.returned = TRUE, !.ret = score_evidence(call.spans)]
    /\ UNCHANGED <<conversations, next_uuid, pc, frame, started, serialized>>

CallRankEvidence ==
    /\ call.fn = "rank_evidence"
    /\ ~call.returned
    /\ call' = [call EXCEPT !.returned = TRUE, !.ret = rank_evidence(call.spans, call.top_k)]
    /\ UNCHANGED <<conversations, next_uuid, pc, frame, started, serialized>>

CallAggregateEvidence ==
    /\ call.fn = "aggregate_evidence"
    /\ ~call.returned
    /\ call' = [call EXCEPT !.returned = TRUE,
                            !.ret = aggregate_evidence(call.spans, call.max_spans)]
    /\ UNCHANGED <<conversations, next_uuid, pc, frame, started, serialized>>

CallFilterEvidence ==
    /\ call.fn = "filter_evidence"
    /\ ~call.returned
    /\ call' = [call EXCEPT !.returned = TRUE,
                            !.ret = filter_evidence(call.spans, call.min_score, call.max_spans)]
    /\ UNCHANGED <<conversations, next_uuid, pc, frame, started, serialized>>

NextScorer ==
    CallScoreEvidence \/ CallRankEvidence \/ CallAggregateEvidence \/ CallFilterEvidence

SpecScorer == InitScorer /\ [][NextScorer]_vars

\* words the span texts are built from: indicators, 'sofa' (holds 'so' inside a word),
\* a behavioral keyword, two event-specific triggers and a capitalised indicator
TextWords ==
    {<<"s","o">>,
     <<"b","e","c","a","u","s","e">>,
     <<"t","h","e","n">>,
     <<"i","f">>,
     <<"c","a","n","c","e","l">>,
     <<"s","o","f","a">>,
     <<"l","e","a","v","i","n","g">>,
     <<"u","n","h","a","p","p","y">>,
     <<"S","o",",">>}

\* a text with six occurrences of a consequence indicator
TSixSo == <<"s","o"," ","s","o"," ","s","o"," ","s","o"," ","s","o"," ","s","o">>

\* a text whose weighted sum passes 1.0
TSaturated ==
    Join(SSpace, [k \in 1..21 |-> IF k <= 6 THEN <<"b","e","c","a","u","s","e">>
                                  ELSE IF k <= 11 THEN <<"s","o">>
                                  ELSE IF k <= 16 THEN <<"t","h","e","n">>
                                  ELSE IF k <= 20 THEN <<"i","f">> ELSE <<"u","m">>])

TextPool ==
    {Join(SSpace, ws) : ws \in UNION {[1..n -> TextWords] : n \in 0..MaxTextWords}}
        \cup {TSixSo, TSaturated}

SBilling == <<"b","i","l","l","i","n","g">>

SEscalationCapital == <<"E","s","c","a","l","a","t","i","o","n">>

SRefundRequest == <<"r","e","f","u","n","d"," ","r","e","q","u","e","s","t">>

EventTypeArgs ==
    {None, Some(<<>>), Some(SChurn), Some(SEscalationCapital), Some(SBilling),
     Some(SRefundRequest)}

\* the behavioral_patterns entries handed to _calculate_pattern_score
BehavioralPool ==
    {[flags |-> <<>>, counts |-> <<>>],
     [flags |-> [hesitation |-> FALSE], counts |-> [hesitation |-> 0]],
     [flags |-> [hesitation |-> FALSE, event_churn_triggers |-> TRUE],
      counts |-> [hesitation |-> 0, event_churn_triggers |-> 2]]}

\* the dicts handed to _calculate_pattern_score; the last ones lack keys
PatternsPool ==
    {[temporal_indicators |-> t, causal_indicators |-> c, conditional_indicators |-> d,
      consequence_indicators |-> q, behavioral_patterns |-> b] :
        t \in {0, 1, 6}, c \in {0, 1, 5, 6}, d \in {0, 5}, q \in {0, 6}, b \in BehavioralPool}
        \cup {[causal_indicators |-> 3], [temporal_indicators |-> 7, causal_indicators |-> 7]}

\* spans of 5 turns starting at each index, and a span without indices
IndexSpans ==
    {[span_id |-> s, start_turn_index |-> s, end_turn_index |-> s + 4] : s \in 0..MaxStart}
        \cup {[span_id |-> -1]}

IndexSpanLists == UNION {[1..n -> IndexSpans] : n \in 0..3}

EventTurnIndexes == (0..(MaxStart + 6)) \cup {40}

InitPatterns ==
    /\ OrchestratorIdle
    /\ conversations = EmptyStore
    /\ \/ \E text \in TextPool, event_type \in EventTypeArgs, keyed \in BOOLEAN :
            call = [fn |-> "detect_patterns",
                    span |-> IF keyed THEN [span_id |-> 0, text |-> text] ELSE [span_id |-> 0],
                    event_type |-> event_type, returned |-> FALSE, ret |-> <<>>]
       \/ \E patterns \in PatternsPool :
            call = [fn |-> "_calculate_pattern_score", patterns |-> patterns,
                    returned |-> FALSE, ret |-> <<>>]
       \/ \E spans \in IndexSpanLists, event_turn_index \in EventTurnIndexes :
            call = [fn |-> "detect_temporal_patterns", spans |-> spans,
                    event_turn_index |-> event_turn_index, returned |-> FALSE, ret |-> <<>>]
       \/ \E spans \in IndexSpanLists :
            call = [fn |-> "detect_sequential_patterns", spans |-> spans,
                    returned |-> FALSE, ret |-> <<>>]

CallDetectPatterns ==
    /\ call.fn = "detect_patterns"
    /\ ~call.returned
    /\ call' = [call EXCEPT !.returned = TRUE,
                            !.ret = detect_patterns(call.span, call.event_type)]
    /\ UNCHANGED <<conversations, next_uuid, pc, frame, started, serialized>>

CallCalculatePatternScore ==
    /\ call.fn = "_calculate_pattern_score"
    /\ ~call.returned
    /\ call' = [call EXCEPT !.returned = TRUE,
                            !.ret = [pattern_score |-> calculate_pattern_score(call.patterns)]]
    /\ UNCHANGED <<conversations, next_uuid, pc, frame, started, serialized>>

CallDetectTemporalPatterns ==
    /\ call.fn = "detect_temporal_patterns"
    /\ ~call.returned
    /\ call' = [call EXCEPT !.returned = TRUE,
                            !.ret = detect_temporal_patterns(call.spans, call.event_turn_index)]
    /\ UNCHANGED <<conversations, next_uuid, pc, frame, started, serialized>>

CallDetectSequentialPatterns ==
    /\ call.fn = "detect_sequential_patterns"
    /\ ~call.returned
    /\ call' = [call EXCEPT !.returned = TRUE, !.ret = detect_sequential_patterns(call.spans)]
    /\ UNCHANGED <<conversations, next_uuid, pc, frame, started, serialized>>

NextPatterns ==
    \/ CallDetectPatterns
    \/ CallCalculatePatternScore
    \/ CallDetectTemporalPatterns
    \/ CallDetectSequentialPatterns

SpecPatterns == InitPatterns /\ [][NextPatterns]_vars

\* results of VectorStore.search with distance 0.0, 0.3, 1.0, 1.5, None and without one
ResultPool ==
    {[span_id |-> d, text |-> <<"t">>, metadata |-> "m", distance |-> Some(Fraction(d, 10))] :
        d \in {0, 3, 10, 15}}
        \cup {[span_id |-> 98, text |-> <<"t">>, metadata |-> "m", distance |-> None],
              [span_id |-> 99, text |-> <<"t">>, metadata |-> "m"]}

ResultLists == UNION {[1..n -> ResultPool] : n \in 0..MaxResults}

InitRetrieve ==
    /\ OrchestratorIdle
    /\ conversations = EmptyStore
    /\ \E results \in {None} \cup {Some(rs) : rs \in ResultLists},
          use_reranking \in BOOLEAN, rerank_top_k \in {0, 1, 10} :
        call = [fn |-> "retrieve", results |-> results, use_reranking |-> use_reranking,
                rerank_top_k |-> rerank_top_k, returned |-> FALSE, ret |-> <<>>]

\* retrieve returns; the reranker's scores are whatever the cross-encoder gives
CallRetrieve ==
    /\ call.fn = "retrieve"
    /\ ~call.returned
    /\ \E scores \in [1..(IF call.results = None THEN 0 ELSE Len(call.results[1])) -> {1, 9}] :
        call' = [call EXCEPT !.returned = TRUE,
                             !.ret = retrieve(call.results,
                                              IF call.use_reranking THEN Some(scores) ELSE None,
                                              call.rerank_top_k)]
    /\ UNCHANGED <<conversations, next_uuid, pc, frame, started, serialized>>

NextRetrieve == CallRetrieve

SpecRetrieve == InitRetrieve /\ [][NextRetrieve]_vars

\* the turn logs a conversation can hold: INITIAL turns of the three queries
HistoryPool ==
    UNION {[1..n -> {InitialTurn(q) : q \in {QWhyCancel, QWhatAboutThat, QRefundDelays}}] :
            n \in 0..MaxHistory}

InitRecentTurns ==
    /\ OrchestratorIdle
    /\ \E turns \in HistoryPool, n \in 0..(MaxHistory + 1) :
        /\ conversations = [c \in {"c1"} |-> turns]
        /\ call = [fn |-> "get_recent_turns", conversation_id |-> "c1", n |-> n,
                   returned |-> FALSE, ret |-> <<>>]

CallGetRecentTurns ==
    /\ call.fn = "get_recent_turns"
    /\ ~call.returned
    /\ call' = [call EXCEPT !.returned = TRUE,
                            !.ret = get_recent_turns(conversations[call.conversation_id], call.n)]
    /\ UNCHANGED <<conversations, next_uuid, pc, frame, started, serialized>>

NextRecentTurns == CallGetRecentTurns

SpecRecentTurns == InitRecentTurns /\ [][NextRecentTurns]_vars

\* pieces of an explanation, each with the evidence number it refers to (-1: it is no
\* reference): references in several spellings, out of range, malformed, and plain text
PiecePool ==
    {[text |-> <<"[","E","v","i","d","e","n","c","e"," ","1","]">>, ref |-> 1],
     [text |-> <<"[","e","v","i","d","e","n","c","e"," "," ","2","]">>, ref |-> 2],
     [text |-> <<"[","E","V","I","D","E","N","C","E","\t","3","]">>, ref |-> 3],
     [text |-> <<"[","E","v","i","d","e","n","c","e"," ","0","1","]">>, ref |-> 1],
     [text |-> <<"[","E","v","i","d","e","n","c","e"," ","0","]">>, ref |-> 0],
     [text |-> <<"[","E","v","i","d","e","n","c","e"," ","1","2","]">>, ref |-> 12],
     [text |-> <<"[","E","v","i","d","e","n","c","e","2","]">>, ref |-> -1],
     [text |-> <<"[","E","v","i","d","e","n","c","e"," ","1">>, ref |-> -1],
     [text |-> <<" ","a","s"," ","s","e","e","n"," ">>, ref |-> -1]}

PieceLists == UNION {[1..n -> PiecePool] : n \in 0..MaxPieces}

RECURSIVE Concat(_)
Concat(texts) == IF texts = <<>> THEN <<>> ELSE texts[1] \o Concat(Tail(texts))

\* evidence spans: complete, bare, and with a text of 201 characters
EvidenceA ==
    [span_id |-> "s1", text |-> <<"a">>, metadata |-> [transcript_id |-> "T1"],
     turn_ids |-> <<1, 2>>]

EvidenceB == [span_id |-> "s2"]

EvidenceC == [span_id |-> "s3", text |-> [k \in 1..201 |-> "x"], metadata |-> <<>>]

EvidenceLists ==
    {<<>>, <<EvidenceA>>, <<EvidenceB, EvidenceA>>, <<EvidenceA, EvidenceB, EvidenceC>>,
     <<EvidenceC, EvidenceC, EvidenceA>>}

InitCitations ==
    /\ OrchestratorIdle
    /\ conversations = EmptyStore
    /\ \E pieces \in PieceLists, evidence \in EvidenceLists :
        call = [fn |-> "_extract_citations", pieces |-> pieces,
                explanation |-> Concat([k \in 1..Len(pieces) |-> pieces[k].text]),
                evidence |-> evidence, returned |-> FALSE, ret |-> <<>>]

CallExtractCitations ==
    /\ call.fn = "_extract_citations"
    /\ ~call.returned
    /\ call' = [call EXCEPT !.returned = TRUE,
                            !.ret = extract_citations(call.explanation, call.evidence)]
    /\ UNCHANGED <<conversations, next_uuid, pc, frame, started, serialized>>

NextCitations == CallExtractCitations

SpecCitations == InitCitations /\ [][NextCitations]_vars

Intents == {"causal_inquiry", "general"}

ResponseExplanations == {<<"E", "1">>, <<"[", "E", "v", "i", "d", "e", "n", "c", "e", " ", "1", "]">>}

\* one query answered on the INITIAL path and one answered on the FOLLOWUP path
InitResponses ==
    /\ OrchestratorIdle
    /\ conversations = EmptyStore
    /\ \E query \in Queries, intent \in Intents, explanation \in ResponseExplanations,
          evidence \in EvidenceLists, context \in ContextPool, isf \in BOOLEAN :
        call = [fn |-> "process_query", query |-> query, intent |-> intent,
                explanation |-> explanation, evidence |-> evidence, context |-> context,
                is_followup |-> isf, conversation_id |-> "c1",
                initial |-> None, followup |-> None]

CallInitialPath ==
    /\ call.fn = "process_query"
    /\ call.initial = None
    /\ call' = [call EXCEPT !.initial =
           Some(initial_response(task1_result(call.query, call.intent, call.explanation,
                                              call.evidence),
                                 call.conversation_id))]
    /\ UNCHANGED <<conversations, next_uuid, pc, frame, started, serialized>>

CallFollowupPath ==
    /\ call.fn = "process_query"
    /\ call.followup = None
    /\ call' = [call EXCEPT !.followup =
           Some(followup_response(followup_result(call.query, call.context,
                                                  call.is_followup, call.explanation,
                                                  call.evidence)))]
    /\ UNCHANGED <<conversations, next_uuid, pc, frame, started, serialized>>

NextResponses == CallInitialPath \/ CallFollowupPath

SpecResponses == InitResponses /\ [][NextResponses]_vars

\* the identity fields of the spans handed to the analyzer
AnalyzedSpan(id, text, start) ==
    [span_id |-> id, text |-> text, start_turn_index |-> start, end_turn_index |-> start + 4,
     turn_ids |-> <<start, start + 1>>, speakers |-> <<"agent", "customer">>,
     transcript_id |-> "T1", relevance_score |-> Fraction(1, 2)]

TBecauseSo == <<"b","e","c","a","u","s","e"," ","s","o">>

\* spans handed to the analyzer: with indices and texts, one that carries a pattern score,
\* one that carries a temporal score, one that carries an evidence score and its
\* components, and a bare one
AnalyzedPool ==
    {AnalyzedSpan("a0", TBecauseSo, 0),
     AnalyzedSpan("a3", <<"t", "h", "e", "n">>, 3),
     AnalyzedSpan("a6", <<>>, 6),
     With(AnalyzedSpan("p1", TBecauseSo, 1), "pattern_score", One),
     With(AnalyzedSpan("t8", <<"i", "f">>, 8), "temporal_score", Zero),
     With(With(AnalyzedSpan("e2", TSixSo, 2), "evidence_score", One),
          "evidence_components",
          [relevance |-> One, temporal |-> One, pattern |-> One, similarity |-> One]),
     [span_id |-> "b"]}

AnalyzedLists == UNION {[1..n -> AnalyzedPool] : n \in 0..MaxAnalyzed}

AnalyzerEventTypes == {None, Some(<<>>), Some(SChurn)}

AnalyzerAnchors == {None, Some(0), Some(2), Some(5), Some(12)}

InitAnalyzer ==
    /\ OrchestratorIdle
    /\ conversations = EmptyStore
    /\ \E spans \in AnalyzedLists :
        \/ \E event_type \in AnalyzerEventTypes, event_turn_index \in AnalyzerAnchors,
              top_k \in {1, 10} :
            call = [fn |-> "analyze_causal_spans", spans |-> spans,
                    event_type |-> event_type, event_turn_index |-> event_turn_index,
                    top_k |-> top_k, returned |-> FALSE, ret |-> <<>>]
        \/ \E event_turn_index \in {0, 2, 5, 12} :
            call = [fn |-> "detect_temporal_patterns", spans |-> spans,
                    event_turn_index |-> event_turn_index, returned |-> FALSE, ret |-> <<>>]
        \/ call = [fn |-> "detect_sequential_patterns", spans |-> spans,
                   returned |-> FALSE, ret |-> <<>>]
        \/ call = [fn |-> "score_evidence", spans |-> spans, returned |-> FALSE, ret |-> <<>>]
        \/ \E top_k \in {None, Some(1)} :
            call = [fn |-> "rank_evidence", spans |-> spans, top_k |-> top_k,
                    returned |-> FALSE, ret |-> <<>>]

CallAnalyzeCausalSpans ==
    /\ call.fn = "analyze_causal_spans"
    /\ ~call.returned
    /\ call' = [call EXCEPT !.returned = TRUE,
                            !.ret = analyze_causal_spans(call.spans, call.event_type,
                                                         call.event_turn_index, call.top_k)]
    /\ UNCHANGED <<conversations, next_uuid, pc, frame, started, serialized>>

NextAnalyzer ==
    \/ CallAnalyzeCausalSpans
    \/ CallDetectTemporalPatterns
    \/ CallDetectSequentialPatterns
    \/ CallScoreEvidence
    \/ CallRankEvidence

SpecAnalyzer == InitAnalyzer /\ [][NextAnalyzer]_vars

\* events for extract_causal_rationale: those of AnchoredEvents and events that name both
\* a turn index and a turn id
RationaleEvents(n) ==
    AnchoredEvents(n)
        \cup {[event_type |-> SChurn, turn_index |-> a, turn_id |-> 101 + a] : a \in 0..(n - 1)}

InitRationale ==
    /\ OrchestratorIdle
    /\ conversations = EmptyStore
    /\ \E n \in 0..MaxEventTurns, ids \in {"all", "odd", "none"}, query \in Queries,
          top_k \in {1, 10} :
        \E event \in RationaleEvents(n) :
            call = [fn |-> "extract_causal_rationale",
                    transcript |-> EventTranscript(n, ids, <<>>),
                    event |-> event, query |-> query, top_k |-> top_k,
                    returned |-> FALSE, ret |-> <<>>]

CallExtractCausalRationale ==
    /\ call.fn = "extract_causal_rationale"
    /\ ~call.returned
    /\ call' = [call EXCEPT !.returned = TRUE,
                            !.ret = extract_causal_rationale(call.transcript, call.event,
                                                             call.query, call.top_k)]
    /\ UNCHANGED <<conversations, next_uuid, pc, frame, started, serialized>>

NextRationale == CallExtractCausalRationale

SpecRationale == InitRationale /\ [][NextRationale]_vars

Init ==
    /\ conversations = EmptyStore
    /\ next_uuid = 0
    /\ pc = [w \in Workers |-> "idle"]
    /\ frame = [w \in Workers |-> IdleFrame]
    /\ started = 0
    /\ serialized \in BOOLEAN
    /\ call = NoCall

Next ==
    \/ \E w \in Workers : StartQuery(w)
    \/ \E w \in Workers : RetrieveOk(w)
    \/ \E w \in Workers : GenerateOk(w)
    \/ \E w \in Workers : Raise(w)
    \/ \E w \in Workers : Return(w)
    \/ \E c \in ConvIds : Clear(c)

Spec == Init /\ [][Next]_vars


(***************************************************************************)
(* Properties.                                                             *)
(***************************************************************************)
AllConvIds == ConvIds \cup {Uuid(k) : k \in 1..Len(UuidNames)}

Last(seq) == seq[Len(seq)]

IsPrefix(a, b) == Len(a) <= Len(b) /\ SubSeq(b, 1, Len(a)) = a

\* worker w starts a request in this step
Starts(w) == pc[w] = "idle" /\ pc'[w] = "retrieve"

\* worker w completes its request successfully in this step
Completes(w) == pc[w] = "generate" /\ pc'[w] = "done"

\* the request of worker w raises in this step
Fails(w) == pc[w] \in {"retrieve", "generate"} /\ pc'[w] = "raised"

\* C1: a request is handled in FOLLOWUP exactly when is_followup returned true for it and
\* (the conversation had a recorded turn when it was classified or the caller supplied a
\* context); a request on a conversation without recorded turns is handled in INITIAL.
C1_FollowupIffClassified ==
    \A w \in Workers : InFlight(w) =>
        LET f == frame[w]
        IN  /\ f.state \in {"INITIAL", "FOLLOWUP"}
            /\ (f.state = "FOLLOWUP") <=> (f.is_followup /\ (f.prior_turns >= 1 \/ f.context # None))
            /\ f.prior_turns = 0 => f.state = "INITIAL"

C1_Witness ==
    \E w \in Workers :
        /\ InFlight(w)
        /\ frame[w].state = "FOLLOWUP"
        /\ frame[w].is_followup
        /\ frame[w].prior_turns >= 1

\* C2: a step in which a request raises hands the error to the caller and changes no turn
\* log, and neither does any earlier step of a request: only a successful completion
\* records a turn.
C2_FailureRecordsNoTurn ==
    [][\A w \in Workers :
          (Starts(w) \/ (pc[w] = "retrieve" /\ pc'[w] = "generate") \/ Fails(w)) =>
              \A c \in AllConvIds : TurnLog(conversations', c) = TurnLog(conversations, c)]_vars

C2_Witness ==
    \E w \in Workers :
        /\ pc[w] = "raised"
        /\ Len(TurnLog(conversations, "c1")) >= 1
        /\ started = Len(TurnLog(conversations, "c1")) + 1
        /\ \A o \in Workers \ {w} : pc[o] = "idle"

\* C3: a successful request appends exactly one turn at the end of the log of its own
\* conversation and leaves the other logs unchanged; in every step that deletes no
\* conversation, each log before the step is a prefix of the log after it.
C3_AppendOnly ==
    [][/\ \A w \in Workers : Completes(w) =>
              LET cid == frame[w].conversation_id
                  old == TurnLog(conversations, cid)
                  new == TurnLog(conversations', cid)
              IN  /\ Len(new) = Len(old) + 1
                  /\ SubSeq(new, 1, Len(old)) = old
                  /\ Last(new).query = frame[w].query
                  /\ \A c \in AllConvIds \ {cid} :
                        TurnLog(conversations', c) = TurnLog(conversations, c)
       /\ (DOMAIN conversations \subseteq DOMAIN conversations') =>
              \A c \in AllConvIds : IsPrefix(TurnLog(conversations, c), TurnLog(conversations', c))]_vars

C3_Witness ==
    /\ Len(TurnLog(conversations, "c1")) >= 2
    /\ Len(TurnLog(conversations, Uuid(1))) = 1
    /\ \E w \in Workers : pc[w] = "done"

\* the enhanced query of the request worker w starts contains the query of the most recent
\* turn of its conversation
ContainsLatestQuery(w) ==
    LET f == frame'[w]
        log == TurnLog(conversations', f.conversation_id)
    IN  log # <<>> => Contains(f.enhanced_query, Last(log).query)

\* C4 as stated: the enhanced query of every FOLLOWUP request contains the query of the most
\* recently recorded turn of its conversation.
C4_Original ==
    [][\A w \in Workers : (Starts(w) /\ frame'[w].state = "FOLLOWUP") => ContainsLatestQuery(w)]_vars

\* C4 amended: a request "what about that?" without explicit context on a conversation with
\* a recorded turn is handled in FOLLOWUP, and the enhanced query of every FOLLOWUP request
\* without explicit context contains the query of the most recently recorded turn.
C4_FollowupContainsLatestQuery ==
    [][\A w \in Workers : (Starts(w) /\ frame'[w].context = None) =>
          LET f == frame'[w]
              log == TurnLog(conversations', f.conversation_id)
          IN  /\ (f.query = QWhatAboutThat /\ log # <<>>) => f.state = "FOLLOWUP"
              /\ f.state = "FOLLOWUP" => (log # <<>> /\ ContainsLatestQuery(w))]_vars

C4_Witness ==
    \E w \in Workers :
        /\ InFlight(w)
        /\ frame[w].state = "FOLLOWUP"
        /\ frame[w].context = None
        /\ frame[w].query = QWhatAboutThat
        /\ frame[w].enhanced_query =
               SPreviousQueries \o QWhyCancel \o SDot \o SCurrentQuery \o QWhatAboutThat

\* "Previous queries: " + the last two queries of the context, oldest first, joined by "; "
PreviousQueriesClause(context) ==
    LET n == Len(context)
    IN  SPreviousQueries \o
        (IF n = 1 THEN ItemQuery(context[1])
         ELSE ItemQuery(context[n - 1]) \o SSemicolon \o ItemQuery(context[n]))

EnhanceReturned == call.fn = "_enhance_query_with_context" /\ call.returned

\* C5 as stated: with prior queries the enhanced query is the "Previous queries" clause,
\* ". " and "Current query: " + query; without any it is "Current query: " + query.
C5_Original ==
    EnhanceReturned =>
        call.ret = IF call.context = <<>>
                   THEN SCurrentQuery \o call.query
                   ELSE PreviousQueriesClause(call.context) \o SDot \o SCurrentQuery \o call.query

\* C5 amended: with a non-empty context the enhanced query is the "Previous queries" clause,
\* ". " and "Current query: " + query; with an empty context it is the query itself.
C5_EnhancedQueryFormat ==
    EnhanceReturned =>
        call.ret = IF call.context = <<>>
                   THEN call.query
                   ELSE PreviousQueriesClause(call.context) \o SDot \o SCurrentQuery \o call.query

C5_Witness ==
    /\ EnhanceReturned
    /\ Len(call.context) = 3
    /\ ItemQuery(call.context[1]) = QWhatAboutThat
    /\ ItemQuery(call.context[2]) = QWhyCancel
    /\ call.ret = SPreviousQueries \o QWhyCancel \o SSemicolon \o ItemQuery(call.context[3])
                  \o SDot \o SCurrentQuery \o call.query

\* C6: the turn a FOLLOWUP request records has the caller's query as its query, an
\* explanation of the generation service as its response, and metadata with exactly the
\* keys is_followup, evidence_count and enhanced_query, the last being the string the
\* request handed to retrieval and generation.
C6_FollowupTurnContent ==
    [][\A w \in Workers : (Completes(w) /\ frame[w].state = "FOLLOWUP") =>
          LET f == frame[w]
              turn == Last(TurnLog(conversations', f.conversation_id))
          IN  /\ turn.query = f.query
              /\ turn.response \in Explanations
              /\ DOMAIN turn.metadata = {"is_followup", "evidence_count", "enhanced_query"}
              /\ turn.metadata.is_followup = f.is_followup
              /\ turn.metadata.evidence_count = f.evidence_count
              /\ turn.metadata.enhanced_query = f.enhanced_query
              /\ turn.metadata.enhanced_query = f.pipeline_query
              /\ turn.metadata.enhanced_query = f.llm_query]_vars

C6_Witness ==
    \E i \in 1..Len(TurnLog(conversations, "c1")) :
        LET turn == TurnLog(conversations, "c1")[i]
        IN  /\ "enhanced_query" \in DOMAIN turn.metadata
            /\ turn.query = QWhatAboutThat
            /\ turn.metadata.enhanced_query # turn.query
            /\ Contains(turn.metadata.enhanced_query, SCurrentQuery \o turn.query)

IsFollowupReturned == call.fn = "is_followup" /\ call.returned

\* C7: is_followup is false for every query when the conversation is unknown or has no
\* recorded turn, and true for "what about it?" when it has at least one.
C7_NoHistoryNoFollowup ==
    IsFollowupReturned =>
        /\ TurnLog(conversations, call.conversation_id) = <<>> => call.ret = FALSE
        /\ (call.query = QWhatAboutIt /\ TurnLog(conversations, call.conversation_id) # <<>>)
               => call.ret = TRUE

C7_Witness ==
    /\ IsFollowupReturned
    /\ call.query = QWhatAboutIt
    /\ Len(TurnLog(conversations, call.conversation_id)) >= 1
    /\ call.ret = TRUE

\* the discourse connectives and reference phrases of the vocabulary
CuePhrases == {followup_indicators[k] : k \in 1..12}

IsLetter(c) == c \in {UpperToLower[u] : u \in DOMAIN UpperToLower}

\* word occurs in text with no letter directly before or after it
ContainsWholeWord(text, word) ==
    \E i \in 0..(Len(text) - Len(word)) :
        /\ SubSeq(text, i + 1, i + Len(word)) = word
        /\ (i = 0 \/ ~IsLetter(text[i]))
        /\ (i + Len(word) = Len(text) \/ ~IsLetter(text[i + Len(word) + 1]))

\* C8 as stated: with a recorded turn, is_followup is true exactly when the lower-cased
\* query contains a cue phrase, or one of the pronouns as a whole word, or has fewer than 5
\* words.
C8_Original ==
    (IsFollowupReturned /\ TurnLog(conversations, call.conversation_id) # <<>>) =>
        call.ret = (\/ \E p \in CuePhrases : Contains(Lower(call.query), p)
                    \/ \E p \in pronouns : ContainsWholeWord(Lower(call.query), p)
                    \/ Len(Split(call.query)) < 5)

\* the follow-up turn worker w records in this step was enhanced from the conversation log
\* and its enhanced query omits the query of the turn it is appended after
StaleAppend(w) ==
    /\ Completes(w)
    /\ frame[w].state = "FOLLOWUP"
    /\ frame[w].context = None
    /\ LET log == TurnLog(conversations, frame[w].conversation_id)
       IN  log # <<>> /\ ~Contains(frame[w].enhanced_query, Last(log).query)

\* C9: a follow-up turn whose enhanced query was built from stale context is recorded only
\* when requests on the same conversation are not serialized.
C9_StaleOnlyUnserialized ==
    [][\A w \in Workers : StaleAppend(w) => ~serialized]_vars

C9_Witness ==
    /\ ~serialized
    /\ \E i \in 2..Len(TurnLog(conversations, "c1")) :
        LET log == TurnLog(conversations, "c1")
        IN  /\ "enhanced_query" \in DOMAIN log[i].metadata
            /\ log[i].metadata.enhanced_query =
                   SPreviousQueries \o QWhatAboutThat \o SDot \o SCurrentQuery \o QWhatAboutThat
            /\ log[i - 1].query = QWhyCancel

SpansReturned == call.fn \in {"extract_dialogue_spans", "_create_spans_from_turns"} /\ call.returned

\* the offset added to the turn indices of the spans of the call
CallStartIndex == IF call.fn = "_create_spans_from_turns" THEN call.start_index ELSE 0

\* C10: for N turns and 1 <= W <= N there are exactly N-W+1 spans, and the span at position
\* i (from 0) has start_turn_index i, end_turn_index i+W-1 and the turn_ids, speakers and
\* text of the turns i..i+W-1 in order; for no turns or W > N there is no span.
C10_WindowSpans ==
    (SpansReturned /\ CallStartIndex = 0) =>
        LET N == Len(call.turns)
            W == call.window_size
        IN  /\ W <= N => Len(call.ret) = N - W + 1
            /\ W > N => call.ret = <<>>
            /\ \A i \in 0..(Len(call.ret) - 1) :
                LET span == call.ret[i + 1]
                IN  /\ span.start_turn_index = i
                    /\ span.end_turn_index = i + W - 1
                    /\ Len(span.turn_ids) = W
                    /\ Len(span.speakers) = W
                    /\ \A j \in 1..W :
                        /\ span.turn_ids[j] = Get(call.turns[i + j], "turn_id", i + j - 1)
                        /\ span.speakers[j] = Get(call.turns[i + j], "speaker", "unknown")
                    /\ span.text = Join(SSpace, [j \in 1..W |-> Get(call.turns[i + j], "text", <<>>)])

C10_Witness ==
    /\ SpansReturned
    /\ CallStartIndex = 0
    /\ Len(call.turns) = 4
    /\ call.window_size = 2
    /\ Len(call.ret) = 3
    /\ call.ret[3].start_turn_index = 2
    /\ call.ret[3].end_turn_index = 3

\* the turns of the transcript of the call
CallTurns == Get(call.transcript, "turns", <<>>)

\* the anchor of an event in the given turns: the index it names, or the position of the
\* first turn carrying the turn id it names; -1 when it has none
AnchorOf(turns, event) ==
    IF "turn_index" \in DOMAIN event THEN event.turn_index
    ELSE IF "turn_id" \in DOMAIN event
            /\ \E k \in 1..Len(turns) : Get(turns[k], "turn_id", -1) = event.turn_id
         THEN (CHOOSE k \in 1..Len(turns) :
                  /\ Get(turns[k], "turn_id", -1) = event.turn_id
                  /\ \A m \in 1..(k - 1) : Get(turns[m], "turn_id", -1) # event.turn_id) - 1
         ELSE -1

\* the span covers original positions within [lo, hi) and names the turns at its positions
SpanInside(span, turns, lo, hi) ==
    /\ lo <= span.start_turn_index
    /\ span.start_turn_index <= span.end_turn_index
    /\ span.end_turn_index < hi
    /\ Len(span.turn_ids) = span.end_turn_index - span.start_turn_index + 1
    /\ \A j \in 1..Len(span.turn_ids) :
        span.turn_ids[j] = Get(turns[span.start_turn_index + j], "turn_id",
                               span.start_turn_index + j - 1)

MatchingEvents ==
    SelectSeq(Get(call.transcript, "events", <<>>),
              LAMBDA e : "event_type" \in DOMAIN e /\ Lower(e.event_type) = Lower(call.event_type))

\* turns in the slice turns[max(0, anchor-before) : anchor+1] of the event
SliceLen(event) ==
    LET anchor == AnchorOf(CallTurns, event)
    IN  IF anchor < 0 THEN 0
        ELSE max(0, min(Len(CallTurns), anchor + 1) - max(0, anchor - call.window_before))

RECURSIVE SpanCount(_)
\* spans the given events contribute: one per window of 5 turns in the slice
SpanCount(events) ==
    IF events = <<>> THEN 0
    ELSE max(0, SliceLen(events[1]) - 4) + SpanCount(Tail(events))

ScoredCopyOf(b, a) ==
    /\ DOMAIN b = DOMAIN a \cup {"evidence_score", "evidence_components"}
    /\ \A k \in DOMAIN a \ {"evidence_score", "evidence_components"} : b[k] = a[k]

Orderings(n) == {p \in [1..n -> 1..n] : \A i, j \in 1..n : p[i] = p[j] => i = j}

\* out is non-increasing by evidence score
NonIncreasing(out) ==
    \A k \in 1..(Len(out) - 1) :
        LET hi == Get(out[k], "evidence_score", [num |-> 0, den |-> 1])
            lo == Get(out[k + 1], "evidence_score", [num |-> 0, den |-> 1])
        IN  hi.num * lo.den >= lo.num * hi.den

\* C13: score_evidence returns one scored copy of each input span, ordered non-increasing
\* by evidence score, spans of equal evidence score in their input order.
C13_ScoredStableSort ==
    (call.fn = "score_evidence" /\ call.returned) =>
        /\ Len(call.ret) = Len(call.spans)
        /\ NonIncreasing(call.ret)
        /\ \E p \in Orderings(Len(call.spans)) :
            /\ \A k \in 1..Len(call.ret) : ScoredCopyOf(call.ret[k], call.spans[p[k]])
            /\ \A k \in 1..(Len(call.ret) - 1) :
                call.ret[k].evidence_score = call.ret[k + 1].evidence_score => p[k] < p[k + 1]

C13_Witness ==
    /\ call.fn = "score_evidence"
    /\ call.returned
    /\ Len(call.ret) = 3
    /\ call.spans[1].span_id = "s4"
    /\ call.spans[2].span_id = "s1"
    /\ call.spans[3].span_id = "s3"
    /\ call.ret[1].span_id = "s1"
    /\ call.ret[2].span_id = "s4"
    /\ call.ret[3].span_id = "s3"
    /\ call.ret[2].evidence_score = call.ret[3].evidence_score

\* C14: the evidence score is 0.4*relevance + 0.3*temporal + 0.2*pattern + 0.1*similarity
\* (as exact rationals), relevance read from
\* relevance_score, else combined_score, else 0, pattern and similarity defaulting to 0
\* and temporal to 0.5; evidence_components holds the four values used; relevance 1 with
\* the other three at 0 scores 0.4.
C14_EvidenceScoreFormula ==
    (call.fn = "score_evidence" /\ call.returned) =>
        \A k \in 1..Len(call.ret) :
            LET span == call.ret[k]
                zero == [num |-> 0, den |-> 1]
                r == IF "relevance_score" \in DOMAIN span THEN span.relevance_score
                     ELSE IF "combined_score" \in DOMAIN span THEN span.combined_score
                     ELSE zero
                t == IF "temporal_score" \in DOMAIN span THEN span.temporal_score
                     ELSE [num |-> 1, den |-> 2]
                p == IF "pattern_score" \in DOMAIN span THEN span.pattern_score ELSE zero
                s == IF "similarity_score" \in DOMAIN span THEN span.similarity_score ELSE zero
                e == span.evidence_score
            IN  /\ e.den > 0
                /\ e.num * (10 * r.den * t.den * p.den * s.den)
                        = e.den * (4 * r.num * t.den * p.den * s.den
                                    + 3 * t.num * r.den * p.den * s.den
                                    + 2 * p.num * r.den * t.den * s.den
                                    + s.num * r.den * t.den * p.den)
                /\ span.evidence_components = [relevance |-> r, temporal |-> t,
                                               pattern |-> p, similarity |-> s]
                /\ (r.num = r.den /\ t.num = 0 /\ p.num = 0 /\ s.num = 0)
                        => e = [num |-> 2, den |-> 5]

C14_Witness ==
    /\ call.fn = "score_evidence"
    /\ call.returned
    /\ Len(call.ret) = 2
    /\ call.ret[1].span_id = "s1"
    /\ call.ret[1].evidence_score = [num |-> 2, den |-> 5]
    /\ call.ret[2].span_id = "s3"
    /\ call.ret[2].evidence_score = [num |-> 3, den |-> 20]
    /\ call.ret[2].evidence_components.temporal = [num |-> 1, den |-> 2]

\* C15 as stated: rank_evidence leaves the evidence score of a span that carries one as
\* it is, returns the spans non-increasing by evidence score, and returns
\* min(top_k, number of spans) of them when top_k is given.
C15_Original ==
    (call.fn = "rank_evidence" /\ call.returned) =>
        /\ NonIncreasing(call.ret)
        /\ Len(call.ret) = IF call.top_k = None THEN Len(call.spans)
                           ELSE min(call.top_k[1], Len(call.spans))
        /\ \A k \in 1..Len(call.spans) : \A j \in 1..Len(call.ret) :
            ("evidence_score" \in DOMAIN call.spans[k]
                    /\ call.ret[j].span_id = call.spans[k].span_id)
                => call.ret[j].evidence_score = call.spans[k].evidence_score

\* the first n elements of seq
FirstN(seq, n) == [k \in 1..min(n, Len(seq)) |-> seq[k]]

\* C16: aggregate_evidence uses the first max_spans spans in input order: text is their
\* texts joined by single spaces, turn_ids, speakers and transcript_ids are the unions
\* over them, num_spans their count and avg_evidence_score the mean of their evidence
\* scores; for no span it returns 0.0, empty text and empty id lists.
C16_AggregateFirstSpans ==
    (call.fn = "aggregate_evidence" /\ call.returned) =>
        LET top == FirstN(call.spans, call.max_spans)
            n == Len(top)
            avg == call.ret.avg_evidence_score
        IN  /\ call.ret.spans = top
            /\ call.ret.num_spans = n
            /\ call.ret.text = Join(SSpace, [k \in 1..n |-> Get(top[k], "text", <<>>)])
            /\ call.ret.turn_ids =
                UNION {{Get(top[k], "turn_ids", <<>>)[j] : j \in 1..Len(Get(top[k], "turn_ids", <<>>))}
                        : k \in 1..n}
            /\ call.ret.speakers =
                UNION {{Get(top[k], "speakers", <<>>)[j] : j \in 1..Len(Get(top[k], "speakers", <<>>))}
                        : k \in 1..n}
            /\ call.ret.transcript_ids =
                {t \in {"T1", "T2"} : \E k \in 1..n :
                    \/ Get(top[k], "transcript_id", "") = t
                    \/ /\ "transcript_id" \notin DOMAIN top[k]
                       /\ "metadata" \in DOMAIN top[k]
                       /\ top[k].metadata.transcript_id = t}
            /\ avg.den > 0
            /\ n > 0 =>
                LET total == fsum([k \in 1..n |->
                                    Get(top[k], "evidence_score", [num |-> 0, den |-> 1])])
                IN  avg.num * n * total.den = avg.den * total.num
            /\ call.spans = <<>> =>
                /\ avg = [num |-> 0, den |-> 1]
                /\ call.ret.text = <<>>
                /\ call.ret.turn_ids = {}
                /\ call.ret.speakers = {}
                /\ call.ret.transcript_ids = {}

C16_Witness ==
    /\ call.fn = "aggregate_evidence"
    /\ call.returned
    /\ call.max_spans = 2
    /\ Len(call.spans) = 3
    /\ call.spans[1].span_id = "s6"
    /\ call.spans[2].span_id = "s8"
    /\ call.spans[3].span_id = "s7"
    /\ call.ret.num_spans = 2
    /\ call.ret.text = <<"c", " ", "d">>
    /\ call.ret.turn_ids = {1, 4}
    /\ call.ret.avg_evidence_score = [num |-> 3, den |-> 5]

\* positions of the spans of the call whose evidence score reaches min_score
Qualifying ==
    {k \in 1..Len(call.spans) :
        LET score == Get(call.spans[k], "evidence_score", [num |-> 0, den |-> 1])
        IN  score.num * call.min_score.den >= call.min_score.num * score.den}

\* C17: filter_evidence returns the first max_spans elements of the order-preserving
\* sublist of the spans with evidence score >= min_score: every returned span qualifies,
\* and a qualifying span is left out only when max_spans qualifying spans precede it.
C17_FilterThenTruncate ==
    (call.fn = "filter_evidence" /\ call.returned) =>
        /\ Len(call.ret) = IF call.max_spans = None THEN Cardinality(Qualifying)
                           ELSE min(call.max_spans[1], Cardinality(Qualifying))
        /\ \A j \in 1..Len(call.ret) :
            /\ LET score == Get(call.ret[j], "evidence_score", [num |-> 0, den |-> 1])
               IN  score.num * call.min_score.den >= call.min_score.num * score.den
            /\ call.ret[j] = call.spans[CHOOSE k \in Qualifying :
                                            Cardinality({m \in Qualifying : m < k}) = j - 1]
        /\ \A k \in Qualifying :
            Cardinality({m \in Qualifying : m < k}) >= Len(call.ret)
                => (call.max_spans # None
                        /\ Cardinality({m \in Qualifying : m < k}) >= call.max_spans[1])

C17_Witness ==
    /\ call.fn = "filter_evidence"
    /\ call.returned
    /\ call.min_score = [num |-> 3, den |-> 10]
    /\ call.max_spans = Some(1)
    /\ Len(call.spans) = 3
    /\ call.spans[1].span_id = "s7"
    /\ call.spans[2].span_id = "s8"
    /\ call.spans[3].span_id = "s6"
    /\ Len(call.ret) = 1
    /\ call.ret[1].span_id = "s8"

\* C18: the scores the pattern detector attaches stay in range: the pattern score in
\* [0, 1], the temporal score in (0, 1] and 1 only at distance 0, the sequential score in
\* [0, 1].
C18_ScoresInRange ==
    /\ (call.fn \in {"detect_patterns", "_calculate_pattern_score"} /\ call.returned) =>
        LET score == call.ret.pattern_score
        IN  score.den > 0 /\ 0 <= score.num /\ score.num <= score.den
    /\ (call.fn = "detect_temporal_patterns" /\ call.returned) =>
        /\ Len(call.ret) = Len(call.spans)
        /\ \A k \in 1..Len(call.ret) :
            LET score == call.ret[k].temporal_score
            IN  /\ score.den > 0
                /\ 0 < score.num
                /\ score.num <= score.den
                /\ score.num = score.den <=> call.ret[k].temporal_distance = 0
    /\ (call.fn = "detect_sequential_patterns" /\ call.returned) =>
        \A k \in 1..Len(call.ret) :
            "sequential_score" \in DOMAIN call.ret[k] =>
                LET score == call.ret[k].sequential_score
                IN  score.den > 0 /\ 0 <= score.num /\ score.num <= score.den

C18_Witness ==
    /\ call.fn = "detect_temporal_patterns"
    /\ call.returned
    /\ call.event_turn_index = 40
    /\ Len(call.ret) = 2
    /\ call.ret[1].temporal_relation = "precedes"
    /\ call.ret[1].temporal_distance = 30
    /\ call.ret[1].temporal_score = [num |-> 1, den |-> 4]
    /\ call.ret[2].span_id = -1

\* the dict of indicator counts and behavioral flags the pattern score of the call is
\* computed from
CallPatterns == IF call.fn = "detect_patterns" THEN call.ret ELSE call.patterns

\* 5 * min(count / 5, 1) of the indicator category
Normalized(patterns, category) ==
    IF category \in DOMAIN patterns
    THEN (IF patterns[category] >= 5 THEN 5 ELSE patterns[category])
    ELSE 0

\* C19: the pattern score is min(1.0, 0.2*min(temporal/5,1) + 0.4*min(causal/5,1)
\* + 0.2*min(conditional/5,1) + 0.2*min(consequence/5,1) + bonus) with bonus 0.2 when a
\* behavioral flag (of the six lexicons or of the event type) fired and 0 otherwise; an
\* event type containing none of escalation, refund, churn adds no event-specific flag.
C19_PatternScoreFormula ==
    (call.fn \in {"detect_patterns", "_calculate_pattern_score"} /\ call.returned) =>
        LET p == CallPatterns
            fired == /\ "behavioral_patterns" \in DOMAIN p
                     /\ \E k \in BehavioralFlags \cup EventFlags :
                            /\ k \in DOMAIN p.behavioral_patterns.flags
                            /\ p.behavioral_patterns.flags[k]
            \* the weighted sum, times 50
            total == 2 * Normalized(p, "temporal_indicators")
                        + 4 * Normalized(p, "causal_indicators")
                        + 2 * Normalized(p, "conditional_indicators")
                        + 2 * Normalized(p, "consequence_indicators")
                        + (IF fired THEN 10 ELSE 0)
            score == call.ret.pattern_score
        IN  /\ score.den > 0
            /\ score.num * 50 = score.den * (IF total >= 50 THEN 50 ELSE total)
            /\ (call.fn = "detect_patterns"
                    /\ (call.event_type = None
                            \/ ~ \E w \in {SEscalation, SRefund, SChurn} :
                                    Contains(Lower(call.event_type[1]), w)))
                => DOMAIN call.ret.behavioral_patterns.flags = BehavioralFlags

C19_Witness ==
    /\ call.fn = "detect_patterns"
    /\ call.returned
    /\ call.event_type = Some(SEscalationCapital)
    /\ call.ret.consequence_indicators = 1
    /\ call.ret.causal_indicators = 1
    /\ call.ret.behavioral_patterns.flags.event_escalation_triggers
    /\ \A k \in BehavioralFlags : ~call.ret.behavioral_patterns.flags[k]
    /\ call.ret.pattern_score = [num |-> 8, den |-> 25]

\* C20 as stated: every result that carries a distance d becomes a span whose similarity
\* is 1 - d, for every d that is present, d = 0 included.
C20_Original ==
    (call.fn = "retrieve" /\ call.returned /\ call.results # None) =>
        \A k \in 1..Len(call.ret) : \A i \in 1..Len(call.results[1]) :
            LET r == call.results[1][i]
            IN  (r.span_id = call.ret[k].span_id
                    /\ "distance" \in DOMAIN r /\ r.distance # None)
                => LET d == r.distance[1]
                       similarity == call.ret[k].similarity_score
                   IN  similarity.num * d.den = similarity.den * (d.den - d.num)

\* C24 as stated: get_recent_turns(n) returns the last min(n, history length) turns in
\* chronological order, for every n >= 0.
C24_Original ==
    (call.fn = "get_recent_turns" /\ call.returned) =>
        LET turns == conversations[call.conversation_id]
            m == IF call.n <= Len(turns) THEN call.n ELSE Len(turns)
        IN  /\ Len(call.ret) = m
            /\ \A k \in 1..Len(call.ret) :
                k <= m => call.ret[k] = turns[Len(turns) - m + k]

\* C25: detect_temporal_patterns classifies each span against the anchor e as precedes
\* (end < e, distance e - end), follows (start > e, distance start - e) or overlaps
\* (distance 0); the temporal score is 1 at distance 0 and 1/(1 + distance/10)
\* = 10/(10 + distance) otherwise, and of two distances the larger has the strictly
\* smaller score.
C25_TemporalClassification ==
    (call.fn = "detect_temporal_patterns" /\ call.returned) =>
        /\ Len(call.ret) = Len(call.spans)
        /\ \A k \in 1..Len(call.ret) :
            LET e == call.event_turn_index
                s == IF "start_turn_index" \in DOMAIN call.spans[k]
                     THEN call.spans[k].start_turn_index ELSE 0
                t == IF "end_turn_index" \in DOMAIN call.spans[k]
                     THEN call.spans[k].end_turn_index ELSE 0
                out == call.ret[k]
            IN  /\ t < e => (out.temporal_relation = "precedes" /\ out.temporal_distance = e - t)
                /\ (t >= e /\ s > e) =>
                        (out.temporal_relation = "follows" /\ out.temporal_distance = s - e)
                /\ (t >= e /\ s <= e) =>
                        (out.temporal_relation = "overlaps" /\ out.temporal_distance = 0)
                /\ out.temporal_score.den > 0
                /\ out.temporal_score.num * (10 + out.temporal_distance)
                        = 10 * out.temporal_score.den
        /\ \A j, k \in 1..Len(call.ret) :
            call.ret[j].temporal_distance < call.ret[k].temporal_distance =>
                call.ret[j].temporal_score.num * call.ret[k].temporal_score.den
                    > call.ret[k].temporal_score.num * call.ret[j].temporal_score.den

C25_Witness ==
    /\ call.fn = "detect_temporal_patterns"
    /\ call.returned
    /\ call.event_turn_index = 2
    /\ Len(call.ret) = 3
    /\ call.ret[1].temporal_relation = "precedes"
    /\ call.ret[1].temporal_distance = 2
    /\ call.ret[1].temporal_score = [num |-> 5, den |-> 6]
    /\ call.ret[2].temporal_relation = "overlaps"
    /\ call.ret[2].temporal_score = [num |-> 1, den |-> 1]
    /\ call.ret[3].temporal_relation = "follows"
    /\ call.ret[3].temporal_distance = 4
    /\ call.ret[3].temporal_score = [num |-> 5, den |-> 7]

\* out lists the spans by start_turn_index, each with the count of its sequential
\* neighbours: the predecessor and the successor in that order whose gap (later start
\* minus earlier end) is at most 2
SequentialByGap(out) ==
    LET start(i) == IF "start_turn_index" \in DOMAIN out[i] THEN out[i].start_turn_index ELSE 0
        end(i) == IF "end_turn_index" \in DOMAIN out[i] THEN out[i].end_turn_index ELSE 0
        count(i) == (IF i > 1 /\ start(i) - end(i - 1) <= 2 THEN 1 ELSE 0)
                        + (IF i < Len(out) /\ start(i + 1) - end(i) <= 2 THEN 1 ELSE 0)
    IN  /\ \A i \in 1..(Len(out) - 1) : start(i) <= start(i + 1)
        /\ \A i \in 1..Len(out) :
            /\ "sequential_indicators" \in DOMAIN out[i]
            /\ out[i].sequential_indicators = count(i)
            /\ out[i].sequential_score = [num |-> IF count(i) = 1 THEN 1 ELSE count(i) \div 2,
                                          den |-> IF count(i) = 1 THEN 2 ELSE 1]

\* C26 as stated: detect_sequential_patterns sorts the spans by start_turn_index and counts
\* for each span the immediate predecessor and successor whose gap, later start minus
\* earlier end, is at most 2 (adjacent and overlapping spans included); the sequential
\* score is min(count/2, 1).
C26_Original ==
    (call.fn = "detect_sequential_patterns" /\ call.returned /\ Len(call.spans) >= 2) =>
        /\ Len(call.ret) = Len(call.spans)
        /\ SequentialByGap(call.ret)

\* C27 as stated: every span detect_sequential_patterns returns carries
\* sequential_indicators and sequential_score = min(sequential_indicators/2, 1), for
\* every input size, a list of exactly one span included.
C27_Original ==
    (call.fn = "detect_sequential_patterns" /\ call.returned) =>
        /\ Len(call.ret) = Len(call.spans)
        /\ \A k \in 1..Len(call.ret) :
            /\ "sequential_indicators" \in DOMAIN call.ret[k]
            /\ "sequential_score" \in DOMAIN call.ret[k]
            /\ call.ret[k].sequential_score.num * 2
                = call.ret[k].sequential_score.den
                    * (IF call.ret[k].sequential_indicators >= 2 THEN 2
                       ELSE call.ret[k].sequential_indicators)

\* C30 as stated: within one result of extract_causal_spans or
\* extract_event_specific_spans, two spans with the same span_id cover the same turns.
C30_Original ==
    (call.fn \in {"extract_causal_spans", "extract_event_specific_spans"} /\ call.returned) =>
        \A j, k \in 1..Len(call.ret) :
            call.ret[j].span_id = call.ret[k].span_id =>
                /\ call.ret[j].start_turn_index = call.ret[k].start_turn_index
                /\ call.ret[j].end_turn_index = call.ret[k].end_turn_index

\* the evidence numbers of the references of the explanation of the call that are within
\* 1..number of evidence spans, in the order of the text
ValidReferences ==
    LET refs == [k \in 1..Len(call.pieces) |-> call.pieces[k].ref]
    IN  SelectSeq(refs, LAMBDA n : 1 <= n /\ n <= Len(call.evidence))

\* C21: the citation list holds one entry for each reference [Evidence N] of the
\* explanation with 1 <= N <= number of evidence spans, in order, pointing at
\* evidence[N-1]; references with N out of range are left out and the call returns.
C21_CitationsByPosition ==
    (call.fn = "_extract_citations" /\ call.returned) =>
        /\ Len(call.ret) = Len(ValidReferences)
        /\ \A k \in 1..Len(call.ret) :
            LET N == ValidReferences[k]
                \* evidence[N-1], the list being held from position 1
                span == call.evidence[N]
            IN  /\ call.ret[k].evidence_number = N
                /\ call.ret[k].span_id = span.span_id
                /\ "turn_ids" \in DOMAIN span => call.ret[k].turn_ids = span.turn_ids
                /\ "text" \in DOMAIN span =>
                    /\ Len(call.ret[k].text) <= 200
                    /\ \A c \in 1..Len(call.ret[k].text) : call.ret[k].text[c] = span.text[c]

C21_Witness ==
    /\ call.fn = "_extract_citations"
    /\ call.returned
    /\ Len(call.pieces) = 3
    /\ call.pieces[1].ref = 2
    /\ call.pieces[2].ref = 12
    /\ call.pieces[3].ref = 1
    /\ call.evidence = <<EvidenceB, EvidenceA>>
    /\ Len(call.ret) = 2
    /\ call.ret[1].evidence_number = 2
    /\ call.ret[1].span_id = "s1"
    /\ call.ret[2].evidence_number = 1
    /\ call.ret[2].span_id = "s2"

\* C22: the result of the INITIAL path and the result of the FOLLOWUP path have the same
\* top-level keys and the same metadata keys, and these cover the response text, the
\* evidence list, the citations, evidence_count, context_used and metadata.
C22_Original ==
    (call.fn = "process_query" /\ call.initial # None /\ call.followup # None) =>
        LET initial == call.initial[1]
            followup == call.followup[1]
        IN  /\ DOMAIN initial = DOMAIN followup
            /\ DOMAIN initial.metadata = DOMAIN followup.metadata
            /\ {"response", "evidence", "citations", "metadata"} \subseteq DOMAIN initial
            /\ {"evidence_count", "context_used"} \subseteq
                   DOMAIN initial \cup DOMAIN initial.metadata
            /\ {"evidence_count", "context_used"} \subseteq
                   DOMAIN followup \cup DOMAIN followup.metadata

\* the span handed to the call that a returned span was made from
InputOf(r) == CHOOSE s \in {call.spans[k] : k \in 1..Len(call.spans)} : s.span_id = r.span_id

\* the distance of a span from the anchor turn e
AnchorDistance(s, e) ==
    LET start == Get(s, "start_turn_index", 0)
        end == Get(s, "end_turn_index", 0)
    IN  IF end < e THEN e - end ELSE IF start > e THEN start - e ELSE 0

\* C23: every span analyze_causal_spans returns has the components of its evidence score
\* taken from the annotations: pattern is the pattern score detect_patterns computes from
\* the text of the span and the event type, also when the span handed in carried a pattern
\* score; temporal is the temporal score for the anchor turn when it is given, and 0.5 when
\* it is not given and the span carried no temporal score.
C23_AnnotationBeforeScoring ==
    (call.fn = "analyze_causal_spans" /\ call.returned) =>
        \A k \in 1..Len(call.ret) :
            LET r == call.ret[k]
                s == InputOf(r)
                c == r.evidence_components
            IN  /\ c.pattern = detect_patterns([text |-> Get(s, "text", <<>>)],
                                               call.event_type).pattern_score
                /\ r.pattern_score = c.pattern
                /\ call.event_turn_index # None =>
                    LET d == AnchorDistance(s, call.event_turn_index[1])
                    IN  /\ c.temporal.num * (10 + d) = 10 * c.temporal.den
                        /\ r.temporal_score = c.temporal
                /\ (call.event_turn_index = None /\ "temporal_score" \notin DOMAIN s) =>
                    2 * c.temporal.num = c.temporal.den

C23_Witness ==
    /\ call.fn = "analyze_causal_spans"
    /\ call.returned
    /\ call.event_turn_index = Some(12)
    /\ Len(call.ret) = 2
    /\ \E k \in 1..2 :
        /\ call.ret[k].span_id = "p1"
        /\ InputOf(call.ret[k]).pattern_score = One
        /\ call.ret[k].evidence_components.pattern # One
        /\ call.ret[k].evidence_components.temporal = Fraction(10, 17)
    /\ \E k \in 1..2 :
        /\ call.ret[k].span_id = "t8"
        /\ call.ret[k].evidence_components.temporal = One

IdentityFields ==
    {"span_id", "text", "start_turn_index", "end_turn_index", "turn_ids", "speakers",
     "transcript_id"}

\* the fields the annotation and scoring stages write
AnnotationFields ==
    {"temporal_indicators", "causal_indicators", "conditional_indicators",
     "consequence_indicators", "behavioral_patterns", "pattern_score", "temporal_relation",
     "temporal_distance", "temporal_score", "sequential_indicators", "sequential_score",
     "evidence_score", "evidence_components"}

\* the identity fields of a span, None for a field the span lacks
Identity(s) == [f \in IdentityFields |-> IF f \in DOMAIN s THEN Some(s[f]) ELSE None]

\* r is the span s with annotation fields written and nothing else changed
AnnotationOf(r, s) ==
    /\ Identity(r) = Identity(s)
    /\ DOMAIN s \subseteq DOMAIN r
    /\ DOMAIN r \ DOMAIN s \subseteq AnnotationFields
    /\ \A f \in DOMAIN s \ AnnotationFields : r[f] = s[f]

Occurrences(spans, id) == Cardinality({k \in 1..Len(spans) : Identity(spans[k]) = id})

\* C28: a call of detect_temporal_patterns, detect_sequential_patterns, score_evidence,
\* rank_evidence or analyze_causal_spans leaves the spans it was given as they were, and
\* every span it returns is one of the spans given, with the same identity fields and
\* with annotation fields only written to it; no span is returned more often than given.
C28_InputsKept ==
    [][(/\ call.fn \in {"detect_temporal_patterns", "detect_sequential_patterns",
                        "score_evidence", "rank_evidence", "analyze_causal_spans"}
        /\ ~call.returned
        /\ call'.returned) =>
            /\ call'.spans = call.spans
            /\ \A k \in 1..Len(call'.ret) :
                /\ \E j \in 1..Len(call.spans) : AnnotationOf(call'.ret[k], call.spans[j])
                /\ Occurrences(call'.ret, Identity(call'.ret[k]))
                       <= Occurrences(call.spans, Identity(call'.ret[k]))
            /\ (call.fn \in {"detect_temporal_patterns", "detect_sequential_patterns",
                             "score_evidence"}) => Len(call'.ret) = Len(call.spans)]_vars

C28_Witness ==
    /\ call.fn = "analyze_causal_spans"
    /\ call.returned
    /\ call.event_turn_index = Some(5)
    /\ Len(call.spans) = 2
    /\ call.spans[1].span_id = "a6"
    /\ call.spans[2].span_id = "a0"
    /\ Len(call.ret) = 2
    /\ call.ret[1].span_id = "a0"
    /\ call.ret[1].start_turn_index = 0
    /\ call.ret[1].temporal_relation = "precedes"
    /\ "evidence_score" \in DOMAIN call.ret[1]
    /\ "temporal_relation" \notin DOMAIN call.spans[2]

====
